---- MODULE Spec2Model ----
(***************************************************************************)
(* Moderation-state engine of the chat-room administration bot.            *)
(*                                                                         *)
(* The repository holds three revisions of the single-file bot:            *)
(*   "index"  src/index.js          in-memory store, lock-hour scheduler   *)
(*   "part0"  src/unnamed/part_000  remote store, reads absorb failures    *)
(*   "part1"  src/unnamed/part_001  remote store, reads raise on failure   *)
(* The state machine follows src/index.js; where a revision differs in a   *)
(* way a property depends on, the difference is modelled under `version`.  *)
(*                                                                         *)
(* A handler that awaits a platform call is split at that await; handlers  *)
(* that only await the in-memory store run as one step, because their      *)
(* continuations are microtasks of the same event-loop turn.               *)
(***************************************************************************)
EXTENDS Integers, FiniteSets, Sequences, TLC

VARIABLES
    version,      \* which revision of the bot runs (fixed at start)
    guildRoles,   \* guild.roles.cache: ids of the roles that exist in the guild
    commands,     \* memoryDB[guild].commands: command -> set of bound role ids
    reply,        \* the last answer the bot sent (with the request it answers)
    now,          \* Date.now(), in ms since the local midnight the process started at
    inGuild,      \* subject -> whether the user is a member of the guild
    heldRoles,    \* subject -> the restriction roles the member holds
    mutedRoles,   \* ids of the guild's roles named MUTED_ROLE_NAME
    muteTimers,   \* the muteTimers map: subject -> {timeout, expiresAt}, or NoRecord
    timer,        \* every setTimeout handle muteUser made: its state and closure
    calls,        \* the muteUser / unmuteUser calls in progress
    issued,       \* how many mute / unmute commands moderators have issued
    channels,     \* guild.channels.cache: the ids of the channels that exist
    overwrite,    \* channel -> the permission overwrite of @everyone
    lockdown_backup,   \* the persisted lockdown backup (memoryDB / remote store)
    lockdownBackups,   \* part_000 / part_001: the in-memory Map of backups
    lockhour,          \* the persisted lock-hour schedule (memoryDB)
    lockHourTimers,    \* the guild's entry of the lockHourTimers map
    hourTimer,         \* every timer handle the lock-hour scheduler made
    hourGen,           \* how many schedules have been configured so far
    tzOffset,          \* hours the process's local clock is ahead of the clock now is read on
    warns,             \* the warns store: subject -> warn record, or NoWarns
    warnCalls,         \* the warn handlers between their read and their write
    warnLog,           \* per subject: the warns issued since the last clear
    setupCalls,        \* the setup interactions of part_000 / part_001 in progress
    lockRun            \* index.js: the lockdownAll and unlockdownAll runs in progress

authVars == <<version, guildRoles, commands, setupCalls>>
muteVars == <<now, inGuild, heldRoles, mutedRoles, muteTimers, timer, calls,
             issued>>
lockVars == <<channels, overwrite, lockdown_backup, lockdownBackups, lockRun>>
hourVars == <<lockhour, lockHourTimers, hourTimer, hourGen, tzOffset>>
warnVars == <<warns, warnCalls, warnLog>>
nonMuteVars == <<authVars, lockVars, hourVars, warnVars>>
vars == <<authVars, reply, muteVars, lockVars, hourVars, warnVars>>

None == "none"

-----------------------------------------------------------------------------
(* Bounds *)

\* roles of the guild in the setup specification (one more than the limit)
NumRoles == 8
\* roles of the guild in the authorization specification
NumAuthRoles == 2
\* capability flags one actor of the authorization specification holds at most
\* (a command requires one flag, and Administrator stands for all of them)
MaxPerms == 1
\* channels of the guild
NumChannels == 2
\* lock-hour schedules configured in one behaviour
MaxConfigures == 2
\* the lock-hour clock stops after this many days
MaxDays == 2
\* subjects (members that can be muted); subject u has role position u
NumSubjects == 1
\* timeouts muteUser may arm in one behaviour
MaxTimers == 2
\* muteUser / unmuteUser calls that may be in progress at once
MaxCalls == 2
\* mute / unmute commands moderators issue in one behaviour
MaxCommands == 3
\* the clock stops after this many minutes
MaxMinutes == 2
\* the longest mute, in minutes
MaxDuration == 1
\* warns issued to a subject between two clears
MaxWarns == 3
\* warn commands between their read and their write at one time
MaxWarnCalls == 2
\* characters of a duration text
MaxTextLen == 4
\* setup interactions of the remote-store revisions in progress at one time
MaxSetupCalls == 2

-----------------------------------------------------------------------------
(* Constants of the program *)

MAX_ROLES_PER_COMMAND == 7

\* parseDuration: one minute is 60 * 1000 ms
MinuteMs == 60 * 1000

\* scheduleLockHourForGuild: the period of the recurring timers,
\* 24 * 60 * 60 * 1000 ms, and the delay added to the re-arming timers
DayMs == 24 * 60 * 60 * 1000
RearmDelayMs == 1000

Versions == {"index", "part0", "part1"}

Caps == {"BanMembers", "ManageRoles", "ManageChannels", "ManageMessages",
         "Administrator"}

\* the commands the moderation branch of messageCreate accepts
BaseModCommands == {"ban", "mute", "unmute", "lock", "unlock", "warn", "warns",
                    "clearwarns", "lockdown", "unlockdown"}

modCommands(v) == IF v = "index" THEN BaseModCommands \cup {"lockhour"}
                  ELSE BaseModCommands

AllCommands == BaseModCommands \cup {"lockhour"}

\* the commands the setup panel offers a button for
setupCommands(v) ==
    LET base == {"ban", "mute", "warn", "lock", "unlock", "clearwarns", "warns",
                 "lockdown"}
    IN IF v = "index" THEN base \cup {"lockhour"} ELSE base

\* COMMAND_PERMISSIONS[command], None when the table has no entry
COMMAND_PERMISSIONS(v, command) ==
    CASE command = "ban" -> "BanMembers"
      [] command \in {"mute", "unmute"} -> "ManageRoles"
      [] command \in {"lock", "unlock", "lockdown"} -> "ManageChannels"
      [] command = "unlockdown" ->
            IF v = "part1" THEN None ELSE "ManageChannels"
      [] command \in {"warn", "warns", "clearwarns"} -> "ManageMessages"
      [] command = "lockhour" ->
            IF v = "index" THEN "Administrator" ELSE None
      [] OTHER -> None

-----------------------------------------------------------------------------
(* AuthorizationEngine *)

\* member.permissions.has(flag): an administrator has every flag
PermissionsHas(perms, flag) == flag \in perms \/ "Administrator" \in perms

\* index.js hasDiscordPermission: no table entry lets the member through
hasDiscordPermission(perms, command) ==
    LET req == COMMAND_PERMISSIONS("index", command)
    IN IF req = None THEN TRUE
       ELSE PermissionsHas(perms, req) \/ PermissionsHas(perms, "Administrator")

\* part_000 / part_001 hasRequiredPermission: no table entry rejects
hasRequiredPermission(v, perms, command) ==
    LET perm == COMMAND_PERMISSIONS(v, command)
    IN IF perm = None THEN FALSE
       ELSE PermissionsHas(perms, perm) \/ PermissionsHas(perms, "Administrator")

\* the capability step of the dispatcher, per revision
CapabilityStep(v, perms, command) ==
    IF v = "index" THEN hasDiscordPermission(perms, command)
    ELSE hasRequiredPermission(v, perms, command)

\* getCommandRoles / dbGet(...).catch(() => null): what the dispatcher sees of
\* the binding.  The in-memory store cannot fail; a failed remote read is
\* seen as "absent".
ReadRoles(v, command, readOk) ==
    IF v = "index" \/ readOk THEN commands[command] ELSE {}

\* a dispatcher that lets administrators through before it reads the binding
\* (the order of part_001's unused helper); the properties of the dispatcher
\* tell it from Authorize
AuthorizeAdminFirst(v, perms, memberRoles, command, seen) ==
    IF ~CapabilityStep(v, perms, command) THEN "CapabilityDenied"
    ELSE IF PermissionsHas(perms, "Administrator") THEN "Authorized"
    ELSE IF seen = {} THEN "Unconfigured"
    ELSE IF \E rid \in seen : rid \in memberRoles THEN "Authorized"
    ELSE "RoleNotAuthorized"

\* a role check that asks for every bound role instead of one of them; the
\* role-holder property tells it from Authorize
AuthorizeEveryRole(v, perms, memberRoles, command, seen) ==
    IF ~CapabilityStep(v, perms, command) THEN "CapabilityDenied"
    ELSE IF seen = {} THEN "Unconfigured"
    ELSE IF PermissionsHas(perms, "Administrator") THEN "Authorized"
    ELSE IF \A rid \in seen : rid \in memberRoles THEN "Authorized"
    ELSE "RoleNotAuthorized"

\* the moderation authorization of messageCreate, as the outcome it replies
Authorize(v, perms, memberRoles, command, seen) ==
    IF ~CapabilityStep(v, perms, command) THEN "CapabilityDenied"
    ELSE IF seen = {} THEN "Unconfigured"
    ELSE IF PermissionsHas(perms, "Administrator") THEN "Authorized"
    ELSE IF \E rid \in seen : rid \in memberRoles THEN "Authorized"
    ELSE "RoleNotAuthorized"

\* part_001 canExecuteCommand (a helper no caller uses): a bare boolean, with
\* the administrator bypass ahead of the read of the binding
canExecuteCommand(perms, memberRoles, command, readOk) ==
    IF ~hasRequiredPermission("part1", perms, command) THEN FALSE
    ELSE IF PermissionsHas(perms, "Administrator") THEN TRUE
    ELSE LET cfg == ReadRoles("part1", command, readOk)
         IN \E roleId \in cfg : roleId \in memberRoles

\* a member's role sets tried by the dispatcher: none, the lowest role, the
\* highest role, all roles
ActorRoleSets == {{}, {1}, {Cardinality(guildRoles)}, guildRoles}

Dispatch(perms, memberRoles, command, readOk) ==
    /\ command \in modCommands(version)
    /\ LET seen == ReadRoles(version, command, readOk)
       IN reply' = [kind |-> "dispatch", command |-> command, perms |-> perms,
                    roles |-> memberRoles, seen |-> seen,
                    outcome |-> Authorize(version, perms, memberRoles, command, seen)]
    /\ UNCHANGED <<version, guildRoles, commands, setupCalls, muteVars, lockVars, hourVars, warnVars>>

-----------------------------------------------------------------------------
(* Setup panel: role bindings *)

getCommandRoles(command) == commands[command]

\* a capacity test that is off by one; the capacity property tells it from
\* AtCapacity
AtCapacityOffByOne(rolesNow) == Cardinality(rolesNow) > MAX_ROLES_PER_COMMAND

\* rolesNow.length >= MAX_ROLES_PER_COMMAND
AtCapacity(rolesNow) == Cardinality(rolesNow) >= MAX_ROLES_PER_COMMAND

addRoleToCommand(command, roleId) ==
    [commands EXCEPT ![command] = @ \cup {roleId}]

\* a removal that drops the whole binding of the command; the bind / unbind
\* round trip tells it from removeRoleFromCommand
removeCommandBinding(command, roleId) ==
    [commands EXCEPT ![command] = {}]

\* delete g.commands[command].roles[roleId]
removeRoleFromCommand(command, roleId) ==
    [commands EXCEPT ![command] = @ \ {roleId}]

\* one command is configured at a time: the bindings of different commands
\* are separate keys of the store and never read together
OnlyConfigured(command) ==
    \A other \in AllCommands \ {command} : commands[other] = {}

\* interactionCreate, customId setup_role_{command}_{roleId}_{adminId}
SetupRole(command, roleId, isAuthor) ==
    /\ command \in setupCommands(version)
    /\ OnlyConfigured(command)
    /\ LET rolesNow == getCommandRoles(command)
           present == roleId \in rolesNow
           result ==
               IF ~isAuthor THEN "NotAuthor"
               ELSE IF roleId \notin guildRoles THEN "RoleNotFound"
               ELSE IF present THEN "AskRemove"
               ELSE IF AtCapacity(rolesNow) THEN "CapacityExceeded"
               ELSE "Added"
       IN /\ commands' = IF result = "Added"
                         THEN addRoleToCommand(command, roleId)
                         ELSE commands
          /\ reply' = [kind |-> "setup_role", command |-> command,
                       role |-> roleId, before |-> rolesNow, result |-> result,
                       author |-> isAuthor]
    /\ UNCHANGED <<version, guildRoles, setupCalls, muteVars, lockVars, hourVars, warnVars>>

\* interactionCreate, customId setup_remove_{command}_{roleId}_{adminId}
SetupRemove(command, roleId, isAuthor) ==
    /\ command \in setupCommands(version)
    /\ OnlyConfigured(command)
    /\ LET rolesNow == getCommandRoles(command)
           result == IF ~isAuthor THEN "NotAuthor" ELSE "Removed"
       IN /\ commands' = IF result = "Removed"
                         THEN removeRoleFromCommand(command, roleId)
                         ELSE commands
          /\ reply' = [kind |-> "setup_remove", command |-> command,
                       role |-> roleId, before |-> rolesNow, result |-> result,
                       author |-> isAuthor]
    /\ UNCHANGED <<version, guildRoles, setupCalls, muteVars, lockVars, hourVars, warnVars>>

\* the setup interactions of part_000 / part_001 between their requests to
\* the remote store
SetupCallIds == 1..MaxSetupCalls
IdleSetup == [pc |-> "idle", command |-> None, role |-> 0, payload |-> {}]
InitSetupCalls == [c \in SetupCallIds |-> IdleSetup]

\* part_000 / part_001, setup_role_: the checks and the GET of
\* getCommandRoles (a failed read gives []); a role to add goes on to
\* addRoleToCommand
RemoteSetupRole(c, command, roleId, isAuthor, readOk) ==
    /\ version # "index"
    /\ command \in setupCommands(version)
    /\ setupCalls[c].pc = "idle"
    /\ \A b \in SetupCallIds : b < c => setupCalls[b].pc # "idle"
    /\ LET rolesNow == ReadRoles(version, command, readOk)
           result ==
               IF ~isAuthor THEN "NotAuthor"
               ELSE IF roleId \notin guildRoles THEN "RoleNotFound"
               ELSE IF roleId \in rolesNow THEN "AskRemove"
               ELSE IF AtCapacity(rolesNow) THEN "CapacityExceeded"
               ELSE "Adding"
       IN IF result = "Adding"
          THEN /\ setupCalls' = [setupCalls EXCEPT ![c] =
                      [pc |-> "add", command |-> command, role |-> roleId,
                       payload |-> {}]]
               /\ UNCHANGED reply
          ELSE /\ reply' = [kind |-> "setup_role", command |-> command,
                            role |-> roleId, before |-> rolesNow,
                            result |-> result, author |-> isAuthor]
               /\ UNCHANGED setupCalls
    /\ UNCHANGED <<version, guildRoles, commands, muteVars, lockVars, hourVars,
                   warnVars>>

\* addRoleToCommand: the GET of the current binding (a failed read gives {})
\* and rolesObj[roleId] = true
RemoteAddRead(c, readOk) ==
    /\ setupCalls[c].pc = "add"
    /\ setupCalls' = [setupCalls EXCEPT ![c].pc = "put", ![c].payload =
           ReadRoles(version, setupCalls[c].command, readOk)
               \cup {setupCalls[c].role}]
    /\ UNCHANGED <<version, guildRoles, commands, reply, muteVars, lockVars,
                   hourVars, warnVars>>

\* part_000 / part_001, setup_remove_: the author check, then
\* removeRoleFromCommand's GET and delete rolesObj[roleId]
RemoteSetupRemove(c, command, roleId, isAuthor, readOk) ==
    /\ version # "index"
    /\ command \in setupCommands(version)
    /\ setupCalls[c].pc = "idle"
    /\ \A b \in SetupCallIds : b < c => setupCalls[b].pc # "idle"
    /\ IF isAuthor
       THEN /\ setupCalls' = [setupCalls EXCEPT ![c] =
                   [pc |-> "put", command |-> command, role |-> roleId,
                    payload |-> ReadRoles(version, command, readOk) \ {roleId}]]
            /\ UNCHANGED reply
       ELSE /\ reply' = [kind |-> "setup_remove", command |-> command,
                         role |-> roleId, before |-> {}, result |-> "NotAuthor",
                         author |-> isAuthor]
            /\ UNCHANGED setupCalls
    /\ UNCHANGED <<version, guildRoles, commands, muteVars, lockVars, hourVars,
                   warnVars>>

\* the PUT of the whole binding and the handler's reply; a rejected PUT is
\* logged and the reply is the same
RemoteWrite(c, writeOk) ==
    /\ setupCalls[c].pc = "put"
    /\ LET call == setupCalls[c]
       IN /\ commands' = IF writeOk
                         THEN [commands EXCEPT ![call.command] = call.payload]
                         ELSE commands
          /\ reply' = [kind |-> "setup_write", command |-> call.command,
                       role |-> call.role, before |-> commands[call.command],
                       result |-> IF call.role \in call.payload THEN "Added"
                                  ELSE "Removed",
                       author |-> TRUE]
    /\ setupCalls' = [setupCalls EXCEPT ![c] = IdleSetup]
    /\ UNCHANGED <<version, guildRoles, muteVars, lockVars, hourVars, warnVars>>

\* the role ids on the panel's buttons: the guild's roles and one role (0)
\* that was deleted after the panel was drawn
ButtonRoles == guildRoles \cup {0}

InitCommands == [c \in AllCommands |-> {}]

-----------------------------------------------------------------------------
(* MuteScheduler *)

Subjects == 1..NumSubjects
TimerIds == 1..MaxTimers
CallIds == 1..MaxCalls

\* member.roles.highest.position of a subject
position(u) == u
\* the positions a moderator may have: below, equal to and above a subject
ModPositions == 1..(NumSubjects + 1)
\* durationMs as parseDuration returns it for "<n>m"
Durations == {n * MinuteMs : n \in 1..MaxDuration}
MaxTime == MaxMinutes * MinuteMs

Min(S) == CHOOSE x \in S : \A y \in S : x <= y

IdleCall == [op |-> "idle", pc |-> None, key |-> 0, modPos |-> 0, dur |-> 0, role |-> 0]
UnusedTimer == [st |-> "unused", key |-> 0, due |-> 0, role |-> 0]
\* muteTimers.get(key) of a key the map does not hold
NoRecord == [timeout |-> 0, expiresAt |-> 0]

InitMuteVars ==
    /\ now = 0
    /\ inGuild = [u \in Subjects |-> TRUE]
    /\ heldRoles = [u \in Subjects |-> {}]
    /\ mutedRoles = {}
    /\ muteTimers = [u \in Subjects |-> NoRecord]
    /\ timer = [t \in TimerIds |-> UnusedTimer]
    /\ calls = [c \in CallIds |-> IdleCall]
    /\ issued = 0

\* guild.roles.cache.find(r => r.name === MUTED_ROLE_NAME): the first such
\* role of the cache, 0 (undefined) when there is none
FindMutedRole == IF mutedRoles = {} THEN 0 ELSE Min(mutedRoles)

\* a call starts in the lowest free slot
FreeSlot(c) ==
    /\ calls[c].op = "idle"
    /\ \A b \in CallIds : b < c => calls[b].op # "idle"

\* the call returns or throws: its slot is freed and the handler replies
Finish(c, result) ==
    /\ calls' = [calls EXCEPT ![c] = IdleCall]
    /\ reply' = [kind |-> calls[c].op, key |-> calls[c].key, result |-> result]

UsedTimers == {t \in TimerIds : timer[t].st # "unused"}
MutesInProgress == {c \in CallIds : calls[c].op = "mute"}

\* clearTimeout(handle): a pending timeout never fires; one that already
\* fired is not affected
ClearTimeout(tm, handle) ==
    IF handle \in TimerIds /\ tm[handle].st = "pending"
    THEN [tm EXCEPT ![handle].st = "cancelled"]
    ELSE tm

\* muteUser is called (the moderator confirmed): it awaits members.fetch
MuteStart(u, modPos, d) ==
    /\ d > 0
    /\ now + d <= MaxTime
    /\ Cardinality(UsedTimers) + Cardinality(MutesInProgress) < MaxTimers
    /\ issued < MaxCommands
    /\ issued' = issued + 1
    /\ \E c \in CallIds :
          /\ FreeSlot(c)
          /\ calls' = [calls EXCEPT ![c] =
                 [op |-> "mute", pc |-> "fetch", key |-> u, modPos |-> modPos,
                  dur |-> d, role |-> 0]]
    /\ UNCHANGED <<nonMuteVars, reply, now, inGuild, heldRoles, mutedRoles,
                   muteTimers, timer>>

\* a hierarchy check that lets a moderator mute a member of equal rank; the
\* hierarchy property tells it from MuteFetched
MuteFetchedEqualAllowed(c) ==
    /\ calls[c].op = "mute" /\ calls[c].pc = "fetch"
    /\ LET u == calls[c].key
       IN IF ~inGuild[u] THEN Finish(c, "NotFound")
          ELSE IF position(u) > calls[c].modPos
               THEN Finish(c, "HierarchyViolation")
          ELSE /\ calls' = [calls EXCEPT
                     ![c].pc = IF FindMutedRole = 0 THEN "create" ELSE "add",
                     ![c].role = FindMutedRole]
               /\ UNCHANGED reply
    /\ UNCHANGED <<nonMuteVars, issued, now, inGuild, heldRoles, mutedRoles, muteTimers,
                   timer>>

\* members.fetch resolved: not-found and hierarchy checks, then
\* ensureMutedRole finds the role or asks the platform to create one
MuteFetched(c) ==
    /\ calls[c].op = "mute" /\ calls[c].pc = "fetch"
    /\ LET u == calls[c].key
       IN IF ~inGuild[u] THEN Finish(c, "NotFound")
          ELSE IF position(u) >= calls[c].modPos
               THEN Finish(c, "HierarchyViolation")
          ELSE /\ calls' = [calls EXCEPT
                     ![c].pc = IF FindMutedRole = 0 THEN "create" ELSE "add",
                     ![c].role = FindMutedRole]
               /\ UNCHANGED reply
    /\ UNCHANGED <<nonMuteVars, issued, now, inGuild, heldRoles, mutedRoles, muteTimers,
                   timer>>

\* guild.roles.create resolved: a new role named MUTED_ROLE_NAME exists
MuteRoleCreated(c) ==
    /\ calls[c].op = "mute" /\ calls[c].pc = "create"
    /\ LET id == Cardinality(mutedRoles) + 1
       IN /\ mutedRoles' = mutedRoles \cup {id}
          /\ calls' = [calls EXCEPT ![c].pc = "add", ![c].role = id]
    /\ UNCHANGED <<nonMuteVars, issued, reply, now, inGuild, heldRoles, muteTimers, timer>>

\* the platform applies member.roles.add (it fails when the member has left)
MuteAddApplied(c) ==
    /\ calls[c].op = "mute" /\ calls[c].pc = "add"
    /\ LET u == calls[c].key
       IN IF inGuild[u]
          THEN /\ heldRoles' = [heldRoles EXCEPT ![u] = @ \cup {calls[c].role}]
               /\ calls' = [calls EXCEPT ![c].pc = "added"]
               /\ UNCHANGED reply
          ELSE /\ Finish(c, "Error")
               /\ UNCHANGED heldRoles
    /\ UNCHANGED <<nonMuteVars, issued, now, inGuild, mutedRoles, muteTimers, timer>>

\* muteUser resumes after roles.add: it clears the recorded timeout, arms a
\* new one and records it
MuteArm(c) ==
    /\ calls[c].op = "mute" /\ calls[c].pc = "added"
    /\ LET u == calls[c].key
           old == muteTimers[u]
           new == Cardinality(UsedTimers) + 1
           cleared == IF old # NoRecord THEN ClearTimeout(timer, old.timeout) ELSE timer
       IN /\ new \in TimerIds
          /\ timer' = [cleared EXCEPT ![new] =
                 [st |-> "pending", key |-> u, due |-> now + calls[c].dur,
                  role |-> calls[c].role]]
          /\ muteTimers' = [muteTimers EXCEPT ![u] =
                 [timeout |-> new, expiresAt |-> now + calls[c].dur]]
    /\ Finish(c, "Muted")
    /\ UNCHANGED <<nonMuteVars, issued, now, inGuild, heldRoles, mutedRoles>>

\* the event loop runs a due timeout: the callback starts and awaits
\* members.fetch
TimerFire(t) ==
    /\ timer[t].st = "pending"
    /\ now >= timer[t].due
    /\ timer' = [timer EXCEPT ![t].st = "fetch"]
    /\ UNCHANGED <<nonMuteVars, issued, reply, now, inGuild, heldRoles, mutedRoles,
                   muteTimers, calls>>

\* the role the callback tests: the one muteUser captured (index.js), or the
\* role found by name when the callback runs (part_000, part_001)
CallbackRole(t) == IF version = "index" THEN timer[t].role ELSE FindMutedRole

\* the callback resumes after members.fetch
CbFetched(t) ==
    /\ timer[t].st = "fetch"
    /\ LET u == timer[t].key
           role == CallbackRole(t)
       IN IF inGuild[u] /\ role # 0 /\ role \in heldRoles[u]
          THEN /\ timer' = [timer EXCEPT ![t].st = "remove", ![t].role = role]
               /\ UNCHANGED muteTimers
          ELSE /\ timer' = [timer EXCEPT ![t].st = "done"]
               /\ muteTimers' = [muteTimers EXCEPT ![u] = NoRecord]
    /\ UNCHANGED <<nonMuteVars, issued, reply, now, inGuild, heldRoles, mutedRoles, calls>>

\* the platform applies the callback's roles.remove (a failure is swallowed)
CbRemoveApplied(t) ==
    /\ timer[t].st = "remove"
    /\ LET u == timer[t].key
       IN heldRoles' = [heldRoles EXCEPT ![u] = @ \ {timer[t].role}]
    /\ timer' = [timer EXCEPT ![t].st = "removed"]
    /\ UNCHANGED <<nonMuteVars, issued, reply, now, inGuild, mutedRoles, muteTimers, calls>>

\* the callback resumes after roles.remove: muteTimers.delete(key)
CbFinish(t) ==
    /\ timer[t].st = "removed"
    /\ timer' = [timer EXCEPT ![t].st = "done"]
    /\ muteTimers' = [muteTimers EXCEPT ![timer[t].key] = NoRecord]
    /\ UNCHANGED <<nonMuteVars, issued, reply, now, inGuild, heldRoles, mutedRoles, calls>>

\* unmuteUser is called: it awaits members.fetch
UnmuteStart(u) ==
    /\ issued < MaxCommands
    /\ issued' = issued + 1
    /\ \E c \in CallIds :
          /\ FreeSlot(c)
          /\ calls' = [calls EXCEPT ![c] =
                 [op |-> "unmute", pc |-> "fetch", key |-> u, modPos |-> 0,
                  dur |-> 0, role |-> 0]]
    /\ UNCHANGED <<nonMuteVars, reply, now, inGuild, heldRoles, mutedRoles,
                   muteTimers, timer>>

\* an unmute that only tests whether a restriction role exists, not whether
\* the member holds it; the not-muted property tells it from UnmuteFetched
UnmuteFetchedAnyMember(c) ==
    /\ calls[c].op = "unmute" /\ calls[c].pc = "fetch"
    /\ LET u == calls[c].key
           role == FindMutedRole
       IN IF ~inGuild[u] THEN Finish(c, "NotFound")
          ELSE IF role = 0
               THEN Finish(c, "NotInState")
          ELSE /\ calls' = [calls EXCEPT ![c].pc = "remove", ![c].role = role]
               /\ UNCHANGED reply
    /\ UNCHANGED <<nonMuteVars, issued, now, inGuild, heldRoles, mutedRoles, muteTimers,
                   timer>>

\* members.fetch resolved: not-found and not-muted checks, then roles.remove
UnmuteFetched(c) ==
    /\ calls[c].op = "unmute" /\ calls[c].pc = "fetch"
    /\ LET u == calls[c].key
           role == FindMutedRole
       IN IF ~inGuild[u] THEN Finish(c, "NotFound")
          ELSE IF role = 0 \/ role \notin heldRoles[u]
               THEN Finish(c, "NotInState")
          ELSE /\ calls' = [calls EXCEPT ![c].pc = "remove", ![c].role = role]
               /\ UNCHANGED reply
    /\ UNCHANGED <<nonMuteVars, issued, now, inGuild, heldRoles, mutedRoles, muteTimers,
                   timer>>

\* the platform applies unmuteUser's roles.remove (it fails, and unmuteUser
\* throws, when the member has left)
UnmuteRemoveApplied(c) ==
    /\ calls[c].op = "unmute" /\ calls[c].pc = "remove"
    /\ LET u == calls[c].key
       IN IF inGuild[u]
          THEN /\ heldRoles' = [heldRoles EXCEPT ![u] = @ \ {calls[c].role}]
               /\ calls' = [calls EXCEPT ![c].pc = "removed"]
               /\ UNCHANGED reply
          ELSE /\ Finish(c, "Error")
               /\ UNCHANGED heldRoles
    /\ UNCHANGED <<nonMuteVars, issued, now, inGuild, mutedRoles, muteTimers, timer>>

\* unmuteUser resumes after roles.remove: it clears and deletes the record
UnmuteFinish(c) ==
    /\ calls[c].op = "unmute" /\ calls[c].pc = "removed"
    /\ LET u == calls[c].key
           old == muteTimers[u]
       IN IF old # NoRecord
          THEN /\ timer' = ClearTimeout(timer, old.timeout)
               /\ muteTimers' = [muteTimers EXCEPT ![u] = NoRecord]
          ELSE UNCHANGED <<timer, muteTimers>>
    /\ Finish(c, "Unmuted")
    /\ UNCHANGED <<nonMuteVars, issued, now, inGuild, heldRoles, mutedRoles>>

\* the member leaves the guild (and loses the roles) or comes back
Leave(u) ==
    /\ inGuild[u]
    /\ inGuild' = [inGuild EXCEPT ![u] = FALSE]
    /\ heldRoles' = [heldRoles EXCEPT ![u] = {}]
    /\ UNCHANGED <<nonMuteVars, issued, reply, now, mutedRoles, muteTimers, timer, calls>>

Join(u) ==
    /\ ~inGuild[u]
    /\ inGuild' = [inGuild EXCEPT ![u] = TRUE]
    /\ UNCHANGED <<nonMuteVars, issued, reply, now, heldRoles, mutedRoles, muteTimers,
                   timer, calls>>

\* a minute passes; the clock stops at MaxTime unless a timeout is waiting
\* for its time
Tick ==
    /\ \/ now + MinuteMs <= MaxTime
       \/ \E t \in TimerIds : timer[t].st = "pending" /\ timer[t].due > now
    /\ now' = now + MinuteMs
    /\ UNCHANGED <<nonMuteVars, issued, reply, inGuild, heldRoles, mutedRoles, muteTimers,
                   timer, calls>>

-----------------------------------------------------------------------------
(* LockdownController *)

Channels == 1..NumChannels
ChannelTypes == {"GuildText", "GuildAnnouncement", "GuildVoice"}
\* ch.type: the guild has a text channel, a voice channel, an announcement
\* channel, a text channel, ... (a channel's type never changes)
chanType(ch) ==
    IF ch % 3 = 1 THEN "GuildText"
    ELSE IF ch % 3 = 2 THEN "GuildVoice"
    ELSE "GuildAnnouncement"

\* the overwrite of @everyone on a channel: whether there is one, its
\* SendMessages bit and (standing for every other bit) its ViewChannel bit
NoOverwrite == [exists |-> FALSE, send |-> "neutral", view |-> "neutral"]
Overwrite(s, v) == [exists |-> TRUE, send |-> s, view |-> v]
\* the overwrites channels start with
InitialOverwrites ==
    {NoOverwrite, Overwrite("allow", "neutral"), Overwrite("deny", "neutral"),
     Overwrite("neutral", "deny")}

\* a backup object: channel id -> true / false / null, "absent" for no key
EmptyBackup == [ch \in Channels |-> "absent"]
NoBackupMap == [has |-> FALSE, entries |-> EmptyBackup]

\* a lockdownAll and an unlockdownAll run between their platform calls: the
\* backup object in hand and the channels still to visit; forced is the set
\* of channels a run of lockdownAll has denied and no run of unlockdownAll
\* has restored since
IdleRun == [pc |-> "idle", backup |-> EmptyBackup, todo |-> {}]
InitLockRun == [engage |-> IdleRun, lift |-> IdleRun, forced |-> {}]

InitLockVars ==
    /\ channels = Channels
    /\ overwrite = [ch \in Channels |-> NoOverwrite]
    /\ lockdown_backup = EmptyBackup
    /\ lockdownBackups = NoBackupMap
    /\ lockRun = InitLockRun

\* hadAllow / hadDeny / sendAllowed of lockdownAll
Classify(ow) ==
    IF ow.exists /\ ow.send = "allow" THEN "true"
    ELSE IF ow.exists /\ ow.send = "deny" THEN "false"
    ELSE "null"

\* permissionOverwrites.edit(everyone, {SendMessages: value}): creates the
\* overwrite when there is none and leaves the other bits alone
EditSend(ow, value) == [exists |-> TRUE, send |-> value, view |-> ow.view]

\* the channel types lockdown covers, per revision
LockdownTypes(v) ==
    IF v = "index" THEN {"GuildText", "GuildAnnouncement"} ELSE ChannelTypes

LockdownTargets == {ch \in channels : chanType(ch) \in LockdownTypes(version)}

\* a backup object that keeps the earlier snapshot's entries of the channels
\* the run does not visit; the replacement property tells it from BackupOf
BackupOfKeepingEarlier(targets) ==
    [ch \in Channels |-> IF ch \in targets THEN Classify(overwrite[ch])
                         ELSE lockdown_backup[ch]]

\* a loop that stops at the first rejected edit; the partial-engage property
\* tells it from Denied
DeniedUntilFailure(targets, failed) ==
    [ch \in Channels |->
        IF ch \in targets \ failed /\ \A o \in failed : o > ch
        THEN EditSend(overwrite[ch], "deny")
        ELSE overwrite[ch]]

\* the backup lockdownAll builds and the overwrites its edits leave, when the
\* edits of the channels in failed are rejected by the platform
BackupOf(targets) ==
    [ch \in Channels |-> IF ch \in targets THEN Classify(overwrite[ch]) ELSE "absent"]
Denied(targets, failed) ==
    [ch \in Channels |->
        IF ch \in targets \ failed THEN EditSend(overwrite[ch], "deny")
        ELSE overwrite[ch]]

\* lockdownAll / doLockdown, given the platform's and the store's answers:
\* whether the bot holds ManageChannels, the channels whose edit is rejected,
\* whether the store's write succeeds (a command the bot may not run makes
\* no call, so nothing else is drawn for it)
lockdownAll(botCan, failed, writeOk) ==
    /\ failed \subseteq LockdownTargets
    /\ version = "index" => writeOk
    /\ ~botCan => (failed = {} /\ writeOk)
    /\ IF ~botCan
       THEN /\ reply' = [kind |-> "lockdown", result |-> "Error",
                         before |-> EmptyBackup, failed |-> {},
                         replaced |-> EmptyBackup]
            /\ UNCHANGED lockVars
       ELSE /\ overwrite' = Denied(LockdownTargets, failed)
            /\ lockdown_backup' = IF writeOk THEN BackupOf(LockdownTargets)
                                  ELSE lockdown_backup
            /\ lockdownBackups' =
                  IF version = "index" THEN lockdownBackups
                  ELSE [has |-> TRUE, entries |-> BackupOf(LockdownTargets)]
            /\ reply' = [kind |-> "lockdown", result |-> "Ok",
                         before |-> BackupOf(LockdownTargets), failed |-> failed,
                         replaced |-> lockdown_backup]
            /\ UNCHANGED <<channels, lockRun>>

\* the lockdown command
LockdownCommand(botCan, failed, writeOk) ==
    /\ lockdownAll(botCan, failed, writeOk)
    /\ UNCHANGED <<authVars, muteVars, hourVars, warnVars>>

\* a restore that re-allows a channel whose broadcast permission was
\* inherited; the round-trip property tells it from RestoreOverwrite
RestoreAllowInherited(ow, prev) ==
    IF prev = "false" THEN EditSend(ow, "deny") ELSE EditSend(ow, "allow")

\* what unlockdownAll does to a channel whose backup entry is prev
RestoreOverwrite(ow, prev) ==
    IF prev = "true" THEN EditSend(ow, "allow")
    ELSE IF prev = "false" THEN EditSend(ow, "deny")
    ELSE NoOverwrite

\* a read that takes every channel as recorded "inherited" when there is no
\* backup; the no-op lift property tells it from BackupRead
BackupReadDefaultInherited(readOk) ==
    IF lockdown_backup = EmptyBackup /\ ~lockdownBackups.has
    THEN [ch \in Channels |-> "null"]
    ELSE IF version = "index" THEN lockdown_backup
    ELSE IF lockdownBackups.has THEN lockdownBackups.entries
    ELSE IF readOk THEN lockdown_backup
    ELSE EmptyBackup

\* the backup unlockdownAll restores from: the persisted one (index.js); the
\* Map's entry, else the remote one, a failed read counting as empty
BackupRead(readOk) ==
    IF version = "index" THEN lockdown_backup
    ELSE IF lockdownBackups.has THEN lockdownBackups.entries
    ELSE IF readOk THEN lockdown_backup
    ELSE EmptyBackup

\* unlockdownAll / undoLockdown
unlockdownAll(botCan, failed, readOk, deleteOk) ==
    /\ failed \subseteq channels
    /\ version = "index" => (readOk /\ deleteOk)
    /\ ~botCan => (failed = {} /\ readOk /\ deleteOk)
    /\ IF ~botCan
       THEN /\ reply' = [kind |-> "unlockdown", result |-> "Error",
                         restored |-> {}, failed |-> {}]
            /\ UNCHANGED lockVars
       ELSE LET backup == BackupRead(readOk)
            IN /\ overwrite' = [ch \in Channels |->
                      IF backup[ch] # "absent" /\ ch \in channels \ failed
                      THEN RestoreOverwrite(overwrite[ch], backup[ch])
                      ELSE overwrite[ch]]
               /\ lockdown_backup' = IF deleteOk THEN EmptyBackup
                                     ELSE lockdown_backup
               /\ lockdownBackups' = NoBackupMap
               /\ reply' = [kind |-> "unlockdown", result |-> "Ok",
                            restored |-> {ch \in channels \ failed :
                                             backup[ch] # "absent"},
                            failed |-> failed]
               /\ UNCHANGED <<channels, lockRun>>

\* the unlockdown command
UnlockdownCommand(botCan, failed, readOk, deleteOk) ==
    /\ unlockdownAll(botCan, failed, readOk, deleteOk)
    /\ UNCHANGED <<authVars, muteVars, hourVars, warnVars>>

\* lockdownAll is called (by the command or by the lock-hour trigger): the
\* ManageChannels test and the empty backup object; with no channel to
\* visit the run goes on to setLockdownBackup without a platform call
EngageBegin(botCan) ==
    /\ version = "index"
    /\ lockRun.engage.pc = "idle"
    /\ IF ~botCan
       THEN /\ reply' = [kind |-> "lockdown", result |-> "Error",
                         before |-> EmptyBackup, failed |-> {},
                         replaced |-> EmptyBackup]
            /\ UNCHANGED lockVars
       ELSE IF LockdownTargets = {}
       THEN /\ lockdown_backup' = EmptyBackup
            /\ reply' = [kind |-> "lockdown", result |-> "Ok",
                         before |-> EmptyBackup, failed |-> {},
                         replaced |-> lockdown_backup]
            /\ UNCHANGED <<channels, overwrite, lockdownBackups, lockRun>>
       ELSE /\ lockRun' = [lockRun EXCEPT !.engage =
                   [pc |-> "run", backup |-> EmptyBackup,
                    todo |-> LockdownTargets]]
            /\ UNCHANGED <<reply, channels, overwrite, lockdown_backup,
                           lockdownBackups>>
    /\ UNCHANGED <<authVars, muteVars, hourVars, warnVars>>

\* one turn of lockdownAll's loop: the channel's classification goes into
\* the backup object and the edit that denies SendMessages is awaited (a
\* rejected edit is dropped)
EngageChannel(editOk) ==
    /\ lockRun.engage.pc = "run"
    /\ lockRun.engage.todo # {}
    /\ LET ch == Min(lockRun.engage.todo)
       IN /\ lockRun' = [lockRun EXCEPT
                 !.engage.backup[ch] = Classify(overwrite[ch]),
                 !.engage.todo = @ \ {ch},
                 !.forced = IF editOk THEN @ \cup {ch} ELSE @]
          /\ overwrite' = IF editOk
                          THEN [overwrite EXCEPT ![ch] = EditSend(@, "deny")]
                          ELSE overwrite
    /\ UNCHANGED <<authVars, reply, muteVars, hourVars, warnVars, channels,
                   lockdown_backup, lockdownBackups>>

\* after the loop: setLockdownBackup(guild.id, backup)
EngageEnd ==
    /\ lockRun.engage.pc = "run"
    /\ lockRun.engage.todo = {}
    /\ lockdown_backup' = lockRun.engage.backup
    /\ lockRun' = [lockRun EXCEPT !.engage = IdleRun]
    /\ reply' = [kind |-> "lockdown", result |-> "Ok",
                 before |-> lockRun.engage.backup, failed |-> {},
                 replaced |-> lockdown_backup]
    /\ UNCHANGED <<authVars, muteVars, hourVars, warnVars, channels, overwrite,
                   lockdownBackups>>

\* unlockdownAll is called: the ManageChannels test and getLockdownBackup;
\* with no channel to restore it goes on to deleteLockdownBackup at once
LiftBegin(botCan) ==
    /\ version = "index"
    /\ lockRun.lift.pc = "idle"
    /\ LET backup == BackupRead(TRUE)
           todo == {ch \in channels : backup[ch] # "absent"}
       IN IF ~botCan
          THEN /\ reply' = [kind |-> "unlockdown", result |-> "Error",
                            restored |-> {}, failed |-> {}]
               /\ UNCHANGED lockVars
          ELSE IF todo = {}
          THEN /\ lockdown_backup' = EmptyBackup
               /\ reply' = [kind |-> "unlockdown", result |-> "Ok",
                            restored |-> {}, failed |-> {}]
               /\ UNCHANGED <<channels, overwrite, lockdownBackups, lockRun>>
          ELSE /\ lockRun' = [lockRun EXCEPT !.lift =
                      [pc |-> "run", backup |-> backup, todo |-> todo]]
               /\ UNCHANGED <<reply, channels, overwrite, lockdown_backup,
                              lockdownBackups>>
    /\ UNCHANGED <<authVars, muteVars, hourVars, warnVars>>

\* one turn of unlockdownAll's loop: the edit or delete that restores the
\* channel is awaited (a rejected one is dropped)
LiftChannel(editOk) ==
    /\ lockRun.lift.pc = "run"
    /\ lockRun.lift.todo # {}
    /\ LET ch == Min(lockRun.lift.todo)
       IN /\ lockRun' = [lockRun EXCEPT
                 !.lift.todo = @ \ {ch},
                 !.forced = IF editOk THEN @ \ {ch} ELSE @]
          /\ overwrite' =
                IF editOk
                THEN [overwrite EXCEPT ![ch] =
                        RestoreOverwrite(@, lockRun.lift.backup[ch])]
                ELSE overwrite
    /\ UNCHANGED <<authVars, reply, muteVars, hourVars, warnVars, channels,
                   lockdown_backup, lockdownBackups>>

\* after the loop: deleteLockdownBackup(guild.id)
LiftEnd ==
    /\ lockRun.lift.pc = "run"
    /\ lockRun.lift.todo = {}
    /\ lockdown_backup' = EmptyBackup
    /\ lockRun' = [lockRun EXCEPT !.lift = IdleRun]
    /\ reply' = [kind |-> "unlockdown", result |-> "Ok",
                 restored |-> {ch \in Channels : lockRun.lift.backup[ch] # "absent"},
                 failed |-> {}]
    /\ UNCHANGED <<authVars, muteVars, hourVars, warnVars, channels, overwrite,
                   lockdownBackups>>

\* the lock argument the lock / unlock command passes
LockArgument(command) ==
    IF version = "part1" THEN command = "unlock" ELSE command = "lock"

\* the lock / unlock command: lockChannel / actionLockChannel
lockChannel(command, ch, botCan, editOk) ==
    /\ command \in {"lock", "unlock"}
    /\ ~botCan => editOk
    /\ LET result == IF ch \notin channels THEN "NotFound"
                     ELSE IF ~botCan \/ ~editOk THEN "Error"
                     ELSE "Ok"
       IN /\ overwrite' =
                IF result = "Ok"
                THEN [overwrite EXCEPT ![ch] =
                        EditSend(@, IF LockArgument(command) THEN "deny" ELSE "allow")]
                ELSE overwrite
          /\ reply' = [kind |-> command, channel |-> ch, result |-> result]
    /\ UNCHANGED <<authVars, muteVars, hourVars, channels, lockdown_backup,
                   lockdownBackups, lockRun, warnVars>>

\* a channel is deleted, its overwrites with it
DeleteChannel(ch) ==
    /\ ch \in channels
    /\ channels' = channels \ {ch}
    /\ overwrite' = [overwrite EXCEPT ![ch] = NoOverwrite]
    /\ UNCHANGED <<authVars, reply, muteVars, hourVars, lockdown_backup,
                   lockdownBackups, lockRun, warnVars>>

-----------------------------------------------------------------------------
(* LockHourScheduler (index.js) *)

MaxHourTimers == 6 * MaxConfigures
HourTimerIds == 1..MaxHourTimers
\* the hours of day a schedule may name
ScheduleHours == {6, 18}
MaxHourTime == MaxDays * DayMs
HourMs == 60 * MinuteMs

NoSchedule == [enabled |-> FALSE, start |-> 0, end |-> 0]
\* lockHourTimers.get(guildId) of a guild the map does not hold; handle 0 is
\* null / undefined
NoHourEntry == [has |-> FALSE, startTimeout |-> 0, endTimeout |-> 0,
                startInterval |-> 0, endInterval |-> 0]
UnusedHourTimer == [st |-> "unused", kind |-> None, due |-> 0, gen |-> 0]

InitHourVars ==
    /\ lockhour = NoSchedule
    /\ lockHourTimers = NoHourEntry
    /\ hourTimer = [t \in HourTimerIds |-> UnusedHourTimer]
    /\ hourGen = 0
    /\ tzOffset = 0

\* a delay that is 0 when the clock stands exactly at the time asked for; the
\* bounds of the delay tell it from msUntilNextAt
msUntilNextOrNow(t, hour, minute) ==
    LET next == (t - (t % DayMs)) + hour * HourMs + minute * MinuteMs
    IN IF next < t THEN (next + DayMs) - t ELSE next - t

\* msUntilNext(hour, minute) when new Date() is t, in ms of local time since
\* a local midnight (a local clock without daylight-saving shifts): next is
\* now with its time of day set to hour:minute:00.000, moved one day on when
\* it is not after now
msUntilNextAt(t, hour, minute) ==
    LET next == (t - (t % DayMs)) + hour * HourMs + minute * MinuteMs
    IN IF next <= t THEN (next + DayMs) - t ELSE next - t

\* msUntilNext(hour, 0) at clock t; t = 0 is a local midnight
msUntilNext(t, hour) == msUntilNextAt(t, hour, 0)

\* the times of day and the clock readings msUntilNext is tried with: whole
\* minutes and the millisecond after, on the first and the second day
DelayHours == {0, 21, 22, 23}
DelayMinutes == {0, 30, 59}
DelayInstants ==
    {day * DayMs + h * HourMs + m * MinuteMs + ms :
        day \in 0..1, h \in DelayHours, m \in DelayMinutes, ms \in 0..1}

\* new Date() as the process's local clock shows it
LocalNow == now + tzOffset * HourMs

\* a caller asks for the delay to the next hour:minute
MsUntilNextCalled(hour, minute) ==
    /\ reply' = [kind |-> "msUntilNext", hour |-> hour, minute |-> minute,
                 result |-> msUntilNextAt(LocalNow, hour, minute)]
    /\ UNCHANGED <<authVars, muteVars, lockVars, hourVars, warnVars>>

\* clearTimeout / clearInterval of a handle
ClearHandle(tm, handle) ==
    IF handle \in HourTimerIds /\ tm[handle].st \in {"pending", "active"}
    THEN [tm EXCEPT ![handle].st = "cancelled"]
    ELSE tm

\* clearLockHourTimers: the timers after the call (the entry is deleted)
clearLockHourTimers(tm) ==
    LET e == lockHourTimers
    IN IF ~e.has THEN tm
       ELSE ClearHandle(ClearHandle(ClearHandle(ClearHandle(tm,
                e.startTimeout), e.endTimeout), e.startInterval), e.endInterval)

UsedHourTimers == {t \in HourTimerIds : hourTimer[t].st # "unused"}
LiveHourTimers == {t \in HourTimerIds : hourTimer[t].st \in {"pending", "active"}}

\* the setuphourlock confirmation: setLockHour, scheduleLockHourForGuild
ConfigureLockHour(startH, endH) ==
    /\ hourGen < MaxConfigures
    /\ LET n == Cardinality(UsedHourTimers)
           gen == hourGen + 1
           startMs == msUntilNext(now, startH)
           endMs == msUntilNext(now, endH)
           armed(kind, delay) ==
               [st |-> "pending", kind |-> kind, due |-> now + delay, gen |-> gen]
       IN /\ n + 4 \in HourTimerIds
          /\ hourTimer' = [clearLockHourTimers(hourTimer) EXCEPT
                 ![n + 1] = armed("startTimeout", startMs),
                 ![n + 2] = armed("endTimeout", endMs),
                 ![n + 3] = armed("startIntervalHandle", startMs + RearmDelayMs),
                 ![n + 4] = armed("endIntervalHandle", endMs + RearmDelayMs)]
          /\ lockHourTimers' = [has |-> TRUE, startTimeout |-> n + 1,
                                endTimeout |-> n + 2, startInterval |-> 0,
                                endInterval |-> 0]
          /\ hourGen' = gen
    /\ lockhour' = [enabled |-> TRUE, start |-> startH, end |-> endH]
    /\ reply' = [kind |-> "setuphourlock", result |-> "Ok"]
    /\ UNCHANGED <<authVars, muteVars, lockVars, tzOffset, warnVars>>

\* the setuphour_disable button: deleteLockHour, clearLockHourTimers
DisableLockHour(isAuthor) ==
    /\ IF isAuthor
       THEN /\ lockhour' = NoSchedule
            /\ hourTimer' = clearLockHourTimers(hourTimer)
            /\ lockHourTimers' = NoHourEntry
            /\ reply' = [kind |-> "setuphour_disable", result |-> "Ok"]
       ELSE /\ reply' = [kind |-> "setuphour_disable", result |-> "NotAuthor"]
            /\ UNCHANGED <<lockhour, hourTimer, lockHourTimers>>
    /\ UNCHANGED <<authVars, muteVars, lockVars, hourGen, tzOffset, warnVars>>

\* the event loop runs the timers in the order of their times, and those of
\* the same time in the order they were made
HourTimerDue(t) ==
    /\ t \in LiveHourTimers
    /\ hourTimer[t].due <= now
    /\ \A o \in LiveHourTimers :
          \/ hourTimer[o].due > hourTimer[t].due
          \/ hourTimer[o].due = hourTimer[t].due /\ o >= t

\* the startTimeout / endTimeout callback: one lockdownAll / unlockdownAll
FireTimeout(t) ==
    /\ HourTimerDue(t)
    /\ hourTimer[t].kind \in {"startTimeout", "endTimeout"}
    /\ hourTimer' = [hourTimer EXCEPT ![t].st = "done"]
    /\ IF hourTimer[t].kind = "startTimeout"
       THEN lockdownAll(TRUE, {}, TRUE)
       ELSE unlockdownAll(TRUE, {}, TRUE, TRUE)
    /\ UNCHANGED <<authVars, muteVars, lockhour, lockHourTimers, hourGen, tzOffset, warnVars>>

\* the startIntervalHandle / endIntervalHandle callback: setInterval, and the
\* new handle is written into the guild's entry (a fresh one if it has none)
FireIntervalHandle(t) ==
    /\ HourTimerDue(t)
    /\ hourTimer[t].kind \in {"startIntervalHandle", "endIntervalHandle"}
    /\ LET iv == Cardinality(UsedHourTimers) + 1
           start == hourTimer[t].kind = "startIntervalHandle"
           cur == lockHourTimers
       IN /\ iv \in HourTimerIds
          /\ hourTimer' = [hourTimer EXCEPT
                 ![t].st = "done",
                 ![iv] = [st |-> "active",
                          kind |-> IF start THEN "startInterval" ELSE "endInterval",
                          due |-> now + DayMs, gen |-> hourTimer[t].gen]]
          /\ lockHourTimers' =
                IF start THEN [cur EXCEPT !.has = TRUE, !.startInterval = iv]
                ELSE [cur EXCEPT !.has = TRUE, !.endInterval = iv]
    /\ UNCHANGED <<authVars, reply, muteVars, lockVars, lockhour, hourGen, tzOffset, warnVars>>

\* a tick of a recurring timer: one lockdownAll / unlockdownAll, and the
\* interval runs again 24 h later
FireInterval(t) ==
    /\ HourTimerDue(t)
    /\ hourTimer[t].kind \in {"startInterval", "endInterval"}
    /\ hourTimer' = [hourTimer EXCEPT ![t].due = @ + DayMs]
    /\ IF hourTimer[t].kind = "startInterval"
       THEN lockdownAll(TRUE, {}, TRUE)
       ELSE unlockdownAll(TRUE, {}, TRUE, TRUE)
    /\ UNCHANGED <<authVars, muteVars, lockhour, lockHourTimers, hourGen, tzOffset, warnVars>>

\* time passes, up to the next timer's time or the next half day
HalfDayMs == 12 * HourMs
NextHalfDay == (now \div HalfDayMs + 1) * HalfDayMs
HourTick ==
    /\ \A t \in LiveHourTimers : hourTimer[t].due > now
    /\ LET times == {hourTimer[t].due : t \in LiveHourTimers} \cup {NextHalfDay}
       IN /\ Min(times) <= MaxHourTime
          /\ now' = Min(times)
    /\ UNCHANGED <<authVars, reply, inGuild, heldRoles, mutedRoles, muteTimers,
                   timer, calls, issued, lockVars, hourVars, warnVars>>

-----------------------------------------------------------------------------
(* WarnLedger *)

WarnCallIds == 1..MaxWarnCalls
\* how a request to the remote store ends: an answer with res.ok, an answer
\* with an error status, or a rejected fetch
FetchOutcomes == {"ok", "status", "throws"}
\* the record of a subject the store holds nothing for (null)
NoWarns == [exists |-> FALSE, count |-> 0]
WarnRecord(n) == [exists |-> TRUE, count |-> n]
IdleWarn == [pc |-> "idle", key |-> 0, next |-> 0]

InitWarnVars ==
    /\ warns = [u \in Subjects |-> NoWarns]
    /\ warnCalls = [c \in WarnCallIds |-> IdleWarn]
    /\ warnLog = [u \in Subjects |->
                     [issued |-> 0, cleared |-> FALSE, disturbed |-> FALSE]]

\* what a read of the subject's warns key hands the caller: the record, or
\* null when the request did not end with res.ok
getWarns(u, read) == IF read = "ok" THEN warns[u] ELSE NoWarns

\* an increment by two; the count of sequential issues tells it from nextWarn
nextWarnSkipping(cur) == IF cur.exists /\ cur.count # 0 THEN cur.count + 2 ELSE 1

\* (cur && cur.count) ? cur.count + 1 : 1
nextWarn(cur) == IF cur.exists /\ cur.count # 0 THEN cur.count + 1 ELSE 1

\* (cur && cur.count) ? cur.count : 0
warnCount(cur) == IF cur.exists /\ cur.count # 0 THEN cur.count ELSE 0

\* the early returns of the warn command
WarnRefusal(u, modPos) ==
    IF ~inGuild[u] THEN "NotFound"
    ELSE IF position(u) >= modPos THEN "HierarchyViolation"
    ELSE None

WarnsInFlight(u) ==
    {c \in WarnCallIds : warnCalls[c].pc = "write" /\ warnCalls[c].key = u}

\* index.js: the warn command and its confirmation; the store is in memory,
\* so the read and the write of the collector are one step
WarnIssue(u, modPos, confirm) ==
    /\ version = "index"
    /\ warnLog[u].issued < MaxWarns
    /\ LET refusal == WarnRefusal(u, modPos)
           next == nextWarn(getWarns(u, "ok"))
           result == IF refusal # None THEN refusal
                     ELSE IF ~confirm THEN "Cancelled"
                     ELSE "Warned"
       IN /\ warns' = IF result = "Warned"
                      THEN [warns EXCEPT ![u] = WarnRecord(next)]
                      ELSE warns
          /\ warnLog' = IF result = "Warned"
                        THEN [warnLog EXCEPT ![u].issued = @ + 1]
                        ELSE warnLog
          /\ reply' = [kind |-> "warn", key |-> u, result |-> result,
                       count |-> IF result = "Warned" THEN next ELSE 0,
                       store |-> "ok"]
    /\ UNCHANGED <<authVars, muteVars, lockVars, hourVars, warnCalls>>

\* part_000 / part_001: the warn command up to the answer of its GET
WarnRead(c, u, modPos, read) ==
    /\ version # "index"
    /\ warnCalls[c].pc = "idle"
    /\ \A b \in WarnCallIds : b < c => warnCalls[b].pc # "idle"
    /\ warnLog[u].issued + Cardinality(WarnsInFlight(u)) < MaxWarns
    /\ warnCount(warns[u]) < MaxWarns
    /\ LET refusal == WarnRefusal(u, modPos)
           result == IF refusal # None THEN refusal
                     ELSE IF read = "throws" THEN "Error"
                     ELSE "Pending"
       IN IF result = "Pending"
          THEN /\ warnCalls' = [warnCalls EXCEPT ![c] =
                       [pc |-> "write", key |-> u,
                        next |-> nextWarn(getWarns(u, read))]]
               /\ warnLog' = [warnLog EXCEPT ![u].disturbed =
                       @ \/ read # "ok" \/ WarnsInFlight(u) # {}]
               /\ UNCHANGED reply
          ELSE /\ reply' = [kind |-> "warn", key |-> u, result |-> result,
                            count |-> 0, store |-> read]
               /\ UNCHANGED <<warnCalls, warnLog>>
    /\ UNCHANGED <<authVars, muteVars, lockVars, hourVars, warns>>

\* part_000 / part_001: the PUT of the warn command and its reply; the
\* response of the PUT is not looked at
WarnWrite(c, write) ==
    /\ warnCalls[c].pc = "write"
    /\ LET u == warnCalls[c].key
           next == warnCalls[c].next
       IN /\ warns' = IF write = "ok"
                      THEN [warns EXCEPT ![u] = WarnRecord(next)]
                      ELSE warns
          /\ warnLog' = IF write = "throws" THEN warnLog
                        ELSE [warnLog EXCEPT ![u].issued = @ + 1,
                                             ![u].disturbed = @ \/ write # "ok"]
          /\ reply' = [kind |-> "warn", key |-> u,
                       result |-> IF write = "throws" THEN "Error" ELSE "Warned",
                       count |-> next, store |-> write]
    /\ warnCalls' = [warnCalls EXCEPT ![c] = IdleWarn]
    /\ UNCHANGED <<authVars, muteVars, lockVars, hourVars>>

\* the warns command
WarnsQuery(u, read) ==
    /\ version = "index" => read = "ok"
    /\ reply' = [kind |-> "warns", key |-> u,
                 result |-> IF read = "throws" THEN "Error" ELSE "Count",
                 count |-> warnCount(getWarns(u, read)), store |-> read]
    /\ UNCHANGED <<authVars, muteVars, lockVars, hourVars, warnVars>>

\* the clearwarns command: deleteWarns in index.js, a DELETE whose response
\* is not looked at in part_000 / part_001
ClearWarns(u, del) ==
    /\ version = "index" => del = "ok"
    /\ warns' = IF del = "ok" THEN [warns EXCEPT ![u] = NoWarns] ELSE warns
    /\ warnLog' = IF del = "throws" THEN warnLog
                  ELSE [warnLog EXCEPT ![u] =
                           [issued |-> 0, cleared |-> TRUE,
                            disturbed |-> del # "ok" \/ WarnsInFlight(u) # {}]]
    /\ reply' = [kind |-> "clearwarns", key |-> u,
                 result |-> IF del = "throws" THEN "Error" ELSE "Cleared",
                 count |-> 0, store |-> del]
    /\ UNCHANGED <<authVars, muteVars, lockVars, hourVars, warnCalls>>

\* scheduleLockHourForGuild(guild, config) at clock t: the timers after the
\* call; nothing is armed for a missing or disabled config
scheduleLockHourForGuild(tm, config, t, gen) ==
    LET n == Cardinality({h \in HourTimerIds : tm[h].st # "unused"})
        armed(kind, delay) ==
            [st |-> "pending", kind |-> kind, due |-> t + delay, gen |-> gen]
    IN IF ~config.enabled THEN tm
       ELSE [tm EXCEPT
               ![n + 1] = armed("startTimeout", msUntilNext(t, config.start)),
               ![n + 2] = armed("endTimeout", msUntilNext(t, config.end)),
               ![n + 3] = armed("startIntervalHandle",
                                msUntilNext(t, config.start) + RearmDelayMs),
               ![n + 4] = armed("endIntervalHandle",
                                msUntilNext(t, config.end) + RearmDelayMs)]

\* the process is started again: the timers, calls and maps of the old
\* process are gone, memoryDB is a new empty object, and the ready handler
\* runs loadAllLockHourConfigs on it; the platform keeps roles and channels
ProcessStart ==
    /\ version = "index"
    /\ LET memoryDB == [lockhour |-> NoSchedule, lockdown_backup |-> EmptyBackup]
           stopped == [t \in HourTimerIds |->
                          IF hourTimer[t].st \in {"pending", "active"}
                          THEN [hourTimer[t] EXCEPT !.st = "cancelled"]
                          ELSE hourTimer[t]]
           cfg == memoryDB.lockhour
       IN /\ Cardinality(UsedHourTimers) + (IF cfg.enabled THEN 4 ELSE 0)
                <= MaxHourTimers
          /\ lockhour' = memoryDB.lockhour
          /\ lockdown_backup' = memoryDB.lockdown_backup
          /\ hourTimer' = scheduleLockHourForGuild(stopped, cfg, now, hourGen)
          /\ lockHourTimers' =
                IF cfg.enabled
                THEN [has |-> TRUE,
                      startTimeout |-> Cardinality(UsedHourTimers) + 1,
                      endTimeout |-> Cardinality(UsedHourTimers) + 2,
                      startInterval |-> 0, endInterval |-> 0]
                ELSE NoHourEntry
          /\ reply' = [kind |-> "ready", persisted |-> lockhour, at |-> now]
    /\ commands' = InitCommands
    /\ muteTimers' = [u \in Subjects |-> NoRecord]
    /\ timer' = [t \in TimerIds |->
                    IF timer[t].st = "unused" THEN timer[t]
                    ELSE [timer[t] EXCEPT !.st = "cancelled"]]
    /\ calls' = [c \in CallIds |-> IdleCall]
    /\ lockRun' = [InitLockRun EXCEPT !.forced = lockRun.forced]
    /\ warns' = [u \in Subjects |-> NoWarns]
    /\ warnCalls' = [c \in WarnCallIds |-> IdleWarn]
    /\ warnLog' = [u \in Subjects |->
                      [issued |-> 0, cleared |-> FALSE, disturbed |-> FALSE]]
    /\ UNCHANGED <<version, guildRoles, setupCalls, now, inGuild, heldRoles,
                   mutedRoles, issued, channels, overwrite, lockdownBackups,
                   hourGen, tzOffset>>

-----------------------------------------------------------------------------
(* Duration parser *)

\* a text is a sequence of characters; the characters the parser is tried
\* with: digits, the blank, an upper-case letter and the letters of the
\* short unit words
DurationChars == {"0", "1", "2", "3", " ", "M", "m", "h", "d", "a", "n", "o", "i", "s"}
DurationTexts == UNION {[1..n -> DurationChars] : n \in 0..MaxTextLen}

\* null, as the parsers return it
ParseFailure == 0 - 1

Digits == {"0", "1", "2", "3", "4", "5", "6", "7", "8", "9"}
DigitValue(c) ==
    CASE c = "0" -> 0 [] c = "1" -> 1 [] c = "2" -> 2 [] c = "3" -> 3
      [] c = "4" -> 4 [] c = "5" -> 5 [] c = "6" -> 6 [] c = "7" -> 7
      [] c = "8" -> 8 [] c = "9" -> 9

\* String.prototype.toLowerCase and trim
toLowerCase(s) == [i \in 1..Len(s) |-> IF s[i] = "M" THEN "m" ELSE s[i]]
trim(s) ==
    LET idx == {i \in 1..Len(s) : s[i] # " "}
    IN IF idx = {} THEN <<>>
       ELSE SubSeq(s, Min(idx), CHOOSE x \in idx : \A y \in idx : y <= x)

\* parseInt(digits, 10) of a non-empty run of digits
RECURSIVE parseInt(_)
parseInt(ds) ==
    IF ds = <<>> THEN 0
    ELSE 10 * parseInt(SubSeq(ds, 1, Len(ds) - 1)) + DigitValue(ds[Len(ds)])

\* the length of the longest prefix of s made of characters of set
PrefixLen(s, set) ==
    IF \A i \in 1..Len(s) : s[i] \in set THEN Len(s)
    ELSE Min({i \in 1..Len(s) : s[i] \notin set}) - 1

StartsWith(s, prefix) ==
    Len(s) >= Len(prefix) /\ SubSeq(s, 1, Len(prefix)) = prefix

\* s.match(/^(\d+)\s*(units)$/), or /^(\d+)(units)$/ when blanks are not
\* allowed: the groups, or no match
MatchNumberUnit(s, units, blanks) ==
    LET k == PrefixLen(s, Digits)
        rest == SubSeq(s, k + 1, Len(s))
        j == IF blanks THEN PrefixLen(rest, {" "}) ELSE 0
        unit == SubSeq(rest, j + 1, Len(rest))
    IN IF k >= 1 /\ unit \in units
       THEN [ok |-> TRUE, n |-> parseInt(SubSeq(s, 1, k)), unit |-> unit]
       ELSE [ok |-> FALSE, n |-> 0, unit |-> <<>>]

\* the unit words of the two parsers
UnitsIndex ==
    {<<"m">>, <<"m","i","n","u","t","o">>, <<"m","i","n","u","t","o","s">>,
     <<"h">>, <<"h","o","r","a">>, <<"h","o","r","a","s">>,
     <<"d">>, <<"d","i","a">>, <<"d","i","a","s">>}
UnitsPT ==
    {<<"m">>, <<"m","i","n">>, <<"m","i","n","s">>,
     <<"m","i","n","u","t","o">>, <<"m","i","n","u","t","o","s">>,
     <<"h">>, <<"h","r">>, <<"h","o","r","a">>, <<"h","o","r","a","s">>,
     <<"d">>, <<"d","i","a">>, <<"d","i","a","s">>,
     <<"a","n","o">>, <<"a","n","o","s">>}

\* The parsers' results are counted in minutes (units of 60 * 1000 ms), the
\* smallest unit they know, so that a number of years stays a 32-bit integer:
\* n * 60 * 1000 ms is n, n * 60 * 60 * 1000 ms is n * 60, and so on.

\* index.js parseDuration
parseDuration(text) ==
    LET s == trim(toLowerCase(text))
        m == MatchNumberUnit(s, UnitsIndex, TRUE)
        m2 == MatchNumberUnit(s, {<<"m">>, <<"h">>, <<"d">>}, FALSE)
    IN IF text = <<>> THEN ParseFailure
       ELSE IF m.ok /\ StartsWith(m.unit, <<"m">>) THEN m.n
       ELSE IF m.ok /\ StartsWith(m.unit, <<"h">>) THEN m.n * 60
       ELSE IF m.ok /\ StartsWith(m.unit, <<"d">>) THEN m.n * 24 * 60
       ELSE IF m2.ok /\ m2.unit = <<"m">> THEN m2.n
       ELSE IF m2.ok /\ m2.unit = <<"h">> THEN m2.n * 60
       ELSE IF m2.ok /\ m2.unit = <<"d">> THEN m2.n * 24 * 60
       ELSE ParseFailure

\* part_000 / part_001 parseDurationPT: the match, else the first two
\* blank-separated parts (the digits of the first, the start of the second)
parseDurationPT(input) ==
    LET s == trim(toLowerCase(input))
        m == MatchNumberUnit(s, UnitsPT, TRUE)
        first == SubSeq(s, 1, PrefixLen(s, DurationChars \ {" "}))
        afterFirst == SubSeq(s, Len(first) + 1, Len(s))
        tail == SubSeq(afterFirst, PrefixLen(afterFirst, {" "}) + 1, Len(afterFirst))
        unit == SubSeq(tail, 1, PrefixLen(tail, DurationChars \ {" "}))
        digits == SelectSeq(first, LAMBDA c : c \in Digits)
        n == parseInt(digits)
    IN IF input = <<>> THEN ParseFailure
       ELSE IF ~m.ok
       THEN IF tail # <<>> /\ digits # <<>>
            THEN IF StartsWith(unit, <<"m","i","n">>) THEN n
                 ELSE IF StartsWith(unit, <<"h","o","r">>) THEN n * 60
                 ELSE IF StartsWith(unit, <<"d","i">>) THEN n * 24 * 60
                 ELSE IF StartsWith(unit, <<"a","n","o">>) THEN n * 365 * 24 * 60
                 ELSE ParseFailure
            ELSE ParseFailure
       ELSE IF StartsWith(m.unit, <<"m">>) THEN m.n
       ELSE IF StartsWith(m.unit, <<"h">>) THEN m.n * 60
       ELSE IF StartsWith(m.unit, <<"d">>) THEN m.n * 24 * 60
       ELSE IF StartsWith(m.unit, <<"a","n","o">>) THEN m.n * 365 * 24 * 60
       ELSE ParseFailure

\* the mute command parses its duration argument
ParseDurationCalled ==
    /\ reply.kind = "text"
    /\ reply' = [kind |-> "parseDuration", text |-> reply.text,
                 result |-> IF version = "index" THEN parseDuration(reply.text)
                            ELSE parseDurationPT(reply.text)]
    /\ UNCHANGED <<authVars, muteVars, lockVars, hourVars, warnVars>>

\* the largest delay a timeout can have, 2^31 - 1 ms: setTimeout keeps its
\* delay as a signed 32-bit number of milliseconds
TIMEOUT_MAX == (1073741824 - 1) + 1073741824

\* the delay in ms setTimeout(callback, durationMs) runs with, for a
\* duration counted in minutes: a delay above TIMEOUT_MAX is set to 1
setTimeoutDelay(minutes) ==
    IF minutes > TIMEOUT_MAX \div MinuteMs THEN 1 ELSE minutes * MinuteMs

\* a mute command that turns away only the text the parser fails on, as
\* durationMs === null would; the positive-duration property tells it from
\* MuteTimeoutSet
MuteTimeoutSetNullOnly ==
    /\ reply.kind = "parseDuration"
    /\ reply.result # ParseFailure
    /\ reply' = [kind |-> "setTimeout", text |-> reply.text,
                 duration |-> reply.result,
                 delay |-> setTimeoutDelay(reply.result)]
    /\ UNCHANGED <<authVars, muteVars, lockVars, hourVars, warnVars>>

\* the mute command goes on with a duration the parser accepted (!durationMs
\* sends the invalid-duration reply) and muteUser arms the expiry timeout
MuteTimeoutSet ==
    /\ reply.kind = "parseDuration"
    /\ reply.result # ParseFailure
    /\ reply.result # 0
    /\ reply' = [kind |-> "setTimeout", text |-> reply.text,
                 duration |-> reply.result,
                 delay |-> setTimeoutDelay(reply.result)]
    /\ UNCHANGED <<authVars, muteVars, lockVars, hourVars, warnVars>>

-----------------------------------------------------------------------------
(* Specifications *)

InitSetup ==
    /\ version = "index"
    /\ guildRoles = 1..NumRoles
    /\ commands = InitCommands
    /\ setupCalls = InitSetupCalls
    /\ reply = [kind |-> None]
    /\ InitMuteVars
    /\ InitLockVars
    /\ InitHourVars
    /\ InitWarnVars

\* the commands whose bindings the setup specification edits (the handlers
\* treat every command alike; "unmute" has no button on the panel)
SetupScope == {"mute", "lockhour", "unmute"}

NextSetup ==
    \/ \E c \in SetupScope, r \in ButtonRoles, a \in BOOLEAN : SetupRole(c, r, a)
    \/ \E c \in SetupScope, r \in ButtonRoles, a \in BOOLEAN : SetupRemove(c, r, a)

SpecSetup == InitSetup /\ [][NextSetup]_vars

InitAuth ==
    /\ version \in Versions
    /\ guildRoles = 1..NumAuthRoles
    /\ commands = InitCommands
    /\ setupCalls = InitSetupCalls
    /\ reply = [kind |-> None]
    /\ InitMuteVars
    /\ InitLockVars
    /\ InitHourVars
    /\ InitWarnVars

ActorPerms == {p \in SUBSET Caps : Cardinality(p) <= MaxPerms}

\* A dispatch changes nothing but the reply, so a behaviour is followed up to
\* the reply of its first dispatch.
NextAuth ==
    /\ reply.kind # "dispatch"
    /\ \/ \E c \in AllCommands, r \in guildRoles : SetupRole(c, r, TRUE)
       \/ \E c \in AllCommands, r \in guildRoles : SetupRemove(c, r, TRUE)
       \/ \E p \in ActorPerms, m \in ActorRoleSets, c \in AllCommands, ok \in BOOLEAN :
              Dispatch(p, m, c, ok)

SpecAuth == InitAuth /\ [][NextAuth]_vars

InitMute ==
    /\ version = "index"
    /\ guildRoles = {}
    /\ commands = InitCommands
    /\ setupCalls = InitSetupCalls
    /\ reply = [kind |-> None]
    /\ InitMuteVars
    /\ InitLockVars
    /\ InitHourVars
    /\ InitWarnVars

\* what the platform and the event loop do on their own
MuteProgress ==
    \/ \E c \in CallIds : MuteFetched(c)
    \/ \E c \in CallIds : MuteRoleCreated(c)
    \/ \E c \in CallIds : MuteAddApplied(c)
    \/ \E c \in CallIds : MuteArm(c)
    \/ \E c \in CallIds : UnmuteFetched(c)
    \/ \E c \in CallIds : UnmuteRemoveApplied(c)
    \/ \E c \in CallIds : UnmuteFinish(c)
    \/ \E t \in TimerIds : TimerFire(t)
    \/ \E t \in TimerIds : CbFetched(t)
    \/ \E t \in TimerIds : CbRemoveApplied(t)
    \/ \E t \in TimerIds : CbFinish(t)
    \/ Tick

NextMute ==
    \/ \E u \in Subjects, p \in ModPositions, d \in Durations : MuteStart(u, p, d)
    \/ \E u \in Subjects : UnmuteStart(u)
    \/ \E u \in Subjects : Leave(u)
    \/ \E u \in Subjects : Join(u)
    \/ MuteProgress

SpecMute == InitMute /\ [][NextMute]_vars

InitLockdown ==
    /\ version \in Versions
    /\ guildRoles = {}
    /\ commands = InitCommands
    /\ setupCalls = InitSetupCalls
    /\ reply = [kind |-> None]
    /\ InitMuteVars
    /\ channels = Channels
    /\ overwrite \in [Channels -> InitialOverwrites]
    /\ lockdown_backup = EmptyBackup
    /\ lockdownBackups = NoBackupMap
    /\ lockRun = InitLockRun
    /\ InitHourVars
    /\ InitWarnVars

NextLockdown ==
    \/ \E b \in BOOLEAN, f \in SUBSET Channels, w \in BOOLEAN :
          LockdownCommand(b, f, w)
    \/ \E b \in BOOLEAN, f \in SUBSET Channels, r \in BOOLEAN, d \in BOOLEAN :
          UnlockdownCommand(b, f, r, d)
    \/ \E c \in {"lock", "unlock"}, ch \in Channels, b \in BOOLEAN, e \in BOOLEAN :
          lockChannel(c, ch, b, e)
    \/ \E ch \in Channels : DeleteChannel(ch)

SpecLockdown == InitLockdown /\ [][NextLockdown]_vars

InitLockHour ==
    /\ version = "index"
    /\ guildRoles = {}
    /\ commands = InitCommands
    /\ setupCalls = InitSetupCalls
    /\ reply = [kind |-> None]
    /\ InitMuteVars
    /\ InitLockVars
    /\ InitHourVars
    /\ InitWarnVars

NextLockHour ==
    \/ \E s \in ScheduleHours, e \in ScheduleHours : ConfigureLockHour(s, e)
    \/ \E a \in BOOLEAN : DisableLockHour(a)
    \/ \E t \in HourTimerIds : FireTimeout(t)
    \/ \E t \in HourTimerIds : FireIntervalHandle(t)
    \/ \E t \in HourTimerIds : FireInterval(t)
    \/ HourTick

SpecLockHour == InitLockHour /\ [][NextLockHour]_vars

\* the lock-hour scheduler of a process that may be started again
NextRestart ==
    \/ NextLockHour
    \/ ProcessStart

SpecRestart == InitLockHour /\ [][NextRestart]_vars

InitWarn ==
    /\ version \in Versions
    /\ guildRoles = {}
    /\ commands = InitCommands
    /\ setupCalls = InitSetupCalls
    /\ reply = [kind |-> None]
    /\ InitMuteVars
    /\ InitLockVars
    /\ InitHourVars
    /\ InitWarnVars

NextWarn ==
    \/ \E u \in Subjects, p \in ModPositions, k \in BOOLEAN : WarnIssue(u, p, k)
    \/ \E c \in WarnCallIds, u \in Subjects, p \in ModPositions, r \in FetchOutcomes :
          WarnRead(c, u, p, r)
    \/ \E c \in WarnCallIds, w \in FetchOutcomes : WarnWrite(c, w)
    \/ \E u \in Subjects, r \in FetchOutcomes : WarnsQuery(u, r)
    \/ \E u \in Subjects, d \in FetchOutcomes : ClearWarns(u, d)

SpecWarn == InitWarn /\ [][NextWarn]_vars

InitDelay ==
    /\ version = "index"
    /\ guildRoles = {}
    /\ commands = InitCommands
    /\ setupCalls = InitSetupCalls
    /\ reply = [kind |-> None]
    /\ now \in DelayInstants
    /\ inGuild = [u \in Subjects |-> TRUE]
    /\ heldRoles = [u \in Subjects |-> {}]
    /\ mutedRoles = {}
    /\ muteTimers = [u \in Subjects |-> NoRecord]
    /\ timer = [t \in TimerIds |-> UnusedTimer]
    /\ calls = [c \in CallIds |-> IdleCall]
    /\ issued = 0
    /\ InitLockVars
    /\ InitHourVars
    /\ InitWarnVars

NextDelay ==
    \E h \in DelayHours, m \in DelayMinutes : MsUntilNextCalled(h, m)

SpecDelay == InitDelay /\ [][NextDelay]_vars

\* the offsets of the process's local clock msUntilNext is tried with, in
\* hours, and the instants: those of DelayInstants a day later, so that every
\* local clock reads a time after its midnight 0
ZoneOffsets == {0 - 3, 0, 1}
ZoneInstants == {DayMs + i : i \in DelayInstants}

\* a process in any of the timezones, at any of the instants
InitZone ==
    /\ version = "index"
    /\ guildRoles = {}
    /\ commands = InitCommands
    /\ setupCalls = InitSetupCalls
    /\ reply = [kind |-> None]
    /\ now \in ZoneInstants
    /\ inGuild = [u \in Subjects |-> TRUE]
    /\ heldRoles = [u \in Subjects |-> {}]
    /\ mutedRoles = {}
    /\ muteTimers = [u \in Subjects |-> NoRecord]
    /\ timer = [t \in TimerIds |-> UnusedTimer]
    /\ calls = [c \in CallIds |-> IdleCall]
    /\ issued = 0
    /\ InitLockVars
    /\ lockhour = NoSchedule
    /\ lockHourTimers = NoHourEntry
    /\ hourTimer = [t \in HourTimerIds |-> UnusedHourTimer]
    /\ hourGen = 0
    /\ tzOffset \in ZoneOffsets
    /\ InitWarnVars

SpecZone == InitZone /\ [][NextDelay]_vars

InitParse ==
    /\ version \in Versions
    /\ guildRoles = {}
    /\ commands = InitCommands
    /\ setupCalls = InitSetupCalls
    /\ reply \in {[kind |-> "text", text |-> t] : t \in DurationTexts}
    /\ InitMuteVars
    /\ InitLockVars
    /\ InitHourVars
    /\ InitWarnVars

NextParse == ParseDurationCalled

SpecParse == InitParse /\ [][NextParse]_vars

\* the mute command from its duration argument to the armed timeout
NextTimeout ==
    \/ ParseDurationCalled
    \/ MuteTimeoutSet

SpecTimeout == InitParse /\ [][NextTimeout]_vars

\* the remote store holds six roles bound to mute by earlier interactions
InitSetupRemote ==
    /\ version = "part0"
    /\ guildRoles = 1..NumRoles
    /\ commands = [InitCommands EXCEPT !["mute"] = 1..(MAX_ROLES_PER_COMMAND - 1)]
    /\ setupCalls = InitSetupCalls
    /\ reply = [kind |-> None]
    /\ InitMuteVars
    /\ InitLockVars
    /\ InitHourVars
    /\ InitWarnVars

\* the buttons of the roles that are not bound at the start
NextSetupRemote ==
    \/ \E c \in SetupCallIds, r \in guildRoles \ (1..(MAX_ROLES_PER_COMMAND - 2)),
          a \in BOOLEAN, ok \in BOOLEAN : RemoteSetupRole(c, "mute", r, a, ok)
    \/ \E c \in SetupCallIds, ok \in BOOLEAN : RemoteAddRead(c, ok)
    \/ \E c \in SetupCallIds, r \in guildRoles \ (1..(MAX_ROLES_PER_COMMAND - 2)),
          a \in BOOLEAN, ok \in BOOLEAN : RemoteSetupRemove(c, "mute", r, a, ok)
    \/ \E c \in SetupCallIds, ok \in BOOLEAN : RemoteWrite(c, ok)

SpecSetupRemote == InitSetupRemote /\ [][NextSetupRemote]_vars

\* lockdownAll and unlockdownAll called while the other may be running
InitLockRace ==
    /\ version = "index"
    /\ guildRoles = {}
    /\ commands = InitCommands
    /\ setupCalls = InitSetupCalls
    /\ reply = [kind |-> None]
    /\ InitMuteVars
    /\ channels = Channels
    /\ overwrite \in [Channels -> InitialOverwrites]
    /\ lockdown_backup = EmptyBackup
    /\ lockdownBackups = NoBackupMap
    /\ lockRun = InitLockRun
    /\ InitHourVars
    /\ InitWarnVars

NextLockRace ==
    \/ \E b \in BOOLEAN : EngageBegin(b)
    \/ \E ok \in BOOLEAN : EngageChannel(ok)
    \/ EngageEnd
    \/ \E b \in BOOLEAN : LiftBegin(b)
    \/ \E ok \in BOOLEAN : LiftChannel(ok)
    \/ LiftEnd

SpecLockRace == InitLockRace /\ [][NextLockRace]_vars

\* the whole bot
Init ==
    /\ version \in Versions
    /\ guildRoles = 1..NumAuthRoles
    /\ commands = InitCommands
    /\ setupCalls = InitSetupCalls
    /\ reply = [kind |-> None]
    /\ InitMuteVars
    /\ channels = Channels
    /\ overwrite \in [Channels -> InitialOverwrites]
    /\ lockdown_backup = EmptyBackup
    /\ lockdownBackups = NoBackupMap
    /\ lockRun = InitLockRun
    /\ InitHourVars
    /\ InitWarnVars

Next ==
    \/ NextSetup
    \/ \E p \in ActorPerms, m \in ActorRoleSets, c \in AllCommands, ok \in BOOLEAN :
          Dispatch(p, m, c, ok)
    \/ NextMute
    \/ NextLockdown
    \/ version = "index" /\ NextLockHour
    \/ NextWarn
    \/ NextSetupRemote
    \/ NextLockRace
    \/ ProcessStart

Spec == Init /\ [][Next]_vars

\* the expiry callbacks and the platform's answers are eventually run; the
\* moderators' commands, the members' comings and goings are not forced
FairMute ==
    /\ \A c \in CallIds :
          /\ WF_vars(MuteFetched(c))
          /\ WF_vars(MuteRoleCreated(c))
          /\ WF_vars(MuteAddApplied(c))
          /\ WF_vars(MuteArm(c))
          /\ WF_vars(UnmuteFetched(c))
          /\ WF_vars(UnmuteRemoveApplied(c))
          /\ WF_vars(UnmuteFinish(c))
    /\ \A t \in TimerIds :
          /\ WF_vars(TimerFire(t))
          /\ WF_vars(CbFetched(t))
          /\ WF_vars(CbRemoveApplied(t))
          /\ WF_vars(CbFinish(t))
    /\ WF_vars(Tick)

SpecMuteFair == InitMute /\ [][NextMute]_vars /\ FairMute

-----------------------------------------------------------------------------
(* Properties *)

DispatchReplied == reply.kind = "dispatch"

\* C1, as the specification states it: a dispatch answers Unconfigured if and
\* only if the role set bound to the command is absent or empty, whatever
\* capabilities the actor holds (actors lacking the capability and
\* administrators included).
C1_UnconfiguredIffEmpty ==
    DispatchReplied =>
        (reply.outcome = "Unconfigured" <=> commands[reply.command] = {})

\* C1, as the code has it: the capability step comes first.  A dispatch
\* answers Unconfigured if and only if the actor passes the capability step
\* and the binding the dispatcher read is absent or empty (a failed remote
\* read is seen as absent; the in-memory store always reads the bound set);
\* an actor lacking the capability the command requires is answered
\* CapabilityDenied whatever the binding is, and an administrator gets no
\* bypass of the Unconfigured answer.
C1_UnconfiguredAfterCapability ==
    DispatchReplied =>
        LET req == COMMAND_PERMISSIONS(version, reply.command)
            admin == "Administrator" \in reply.perms
            lacks == IF req = None THEN version # "index"
                     ELSE req \notin reply.perms /\ ~admin
        IN /\ reply.outcome = "Unconfigured" <=> (~lacks /\ reply.seen = {})
           /\ lacks <=> reply.outcome = "CapabilityDenied"
           /\ (admin /\ ~lacks /\ reply.seen = {}) => reply.outcome = "Unconfigured"
           /\ commands[reply.command] = {} => reply.seen = {}
           /\ version = "index" => reply.seen = commands[reply.command]

\* an administrator's command on an unbound action was answered Unconfigured
C1_AdminUnconfigured ==
    /\ DispatchReplied
    /\ "Administrator" \in reply.perms
    /\ commands[reply.command] = {}
    /\ reply.outcome = "Unconfigured"

\* C2: in every reachable state at most one expiry timer is pending per
\* subject, and a pending timer is the one the muteTimers map records (so it
\* can still be cancelled).
C2_OnePendingRecordedTimer ==
    \A u \in Subjects :
        LET pending == {t \in TimerIds :
                           timer[t].st = "pending" /\ timer[t].key = u}
        IN /\ Cardinality(pending) <= 1
           /\ \A t \in pending : muteTimers[u].timeout = t

\* timer t2 was armed by a later mute of the same subject than timer t1
LaterMute(t1, t2) ==
    /\ t1 < t2
    /\ timer[t1].st # "unused" /\ timer[t2].st # "unused"
    /\ timer[t1].key = timer[t2].key

\* in this step the callback of timer t removes the role from the subject or
\* changes the subject's entry of muteTimers
CallbackActs(t) ==
    /\ timer[t].st \in {"fetch", "remove", "removed"}
    /\ timer'[t].st # timer[t].st
    /\ \/ heldRoles'[timer[t].key] # heldRoles[timer[t].key]
       \/ muteTimers'[timer[t].key] # muteTimers[timer[t].key]

\* C3: a later mute supersedes an earlier one: once the later mute has
\* completed (its timer is armed), no step of the earlier mute's expiry
\* callback removes the restriction role or touches the later mute's record.
C3_LaterMuteSupersedes ==
    [][\A t1, t2 \in TimerIds : LaterMute(t1, t2) => ~CallbackActs(t1)]_vars

\* C4: every mute that succeeds is eventually reversed: once muteUser has
\* answered, the subject eventually no longer holds the restriction role,
\* unless the subject leaves or a further mute or unmute is issued.
C4_MuteEventuallyReversed ==
    \A u \in Subjects : \A n \in 0..MaxCommands :
        (reply = [kind |-> "mute", key |-> u, result |-> "Muted"] /\ issued = n)
            ~> (heldRoles[u] = {} \/ ~inGuild[u] \/ issued > n)

\* C5: expiry and explicit unmute of the same mute are mutually exclusive:
\* never have both the expiry callback of the subject's latest mute and an
\* unmuteUser call passed their test that the role is held and asked the
\* platform to remove it.
C5_ExpiryUnmuteExclusive ==
    \A t \in TimerIds : \A c \in CallIds :
        ~ /\ timer[t].st = "remove"
          /\ \A t2 \in TimerIds : ~LaterMute(t, t2)
          /\ MutesInProgress = {}
          /\ calls[c].op = "unmute" /\ calls[c].pc = "remove"
          /\ calls[c].key = timer[t].key

\* the last command was a lockdown that ran with no per-channel failure
CleanEngage ==
    /\ reply.kind = "lockdown"
    /\ reply.result = "Ok"
    /\ reply.failed = {}

\* C6: with no per-channel failure and no other operation in between, engage
\* followed by lift leaves every channel that still exists with the
\* classification (allow, deny, inherited) engage read; a channel that was
\* inherited has no overwrite for @everyone afterward; a channel lockdown
\* does not cover keeps its overwrite.
C6_EngageLiftRoundTrip ==
    [][ ( /\ CleanEngage
          /\ reply'.kind = "unlockdown"
          /\ reply'.result = "Ok"
          /\ reply'.failed = {} )
        => \A ch \in channels' :
              /\ reply.before[ch] # "absent"
                    => Classify(overwrite'[ch]) = reply.before[ch]
              /\ reply.before[ch] = "null" => ~overwrite'[ch].exists
              /\ reply.before[ch] = "absent" => overwrite'[ch] = overwrite[ch]
      ]_vars

\* a lift with no failure has restored a channel to having no overwrite and
\* another one to an explicit allow or deny
C6_LiftRestored ==
    /\ reply.kind = "unlockdown"
    /\ reply.result = "Ok"
    /\ reply.failed = {}
    /\ \E ch \in reply.restored : ~overwrite[ch].exists
    /\ \E ch \in reply.restored : overwrite[ch].exists

\* C7: after engage returns with no per-channel failure, SendMessages is
\* explicitly denied to @everyone on every covered channel that existed when
\* engage ran (and still exists), and the persisted backup holds one entry
\* per such channel with the classification read before the deny.
C7_EngageDeniesAndPersists ==
    CleanEngage =>
        \A ch \in channels :
            reply.before[ch] # "absent" =>
                /\ overwrite[ch].exists /\ overwrite[ch].send = "deny"
                /\ lockdown_backup[ch] = reply.before[ch]

\* in this step a scheduled engage or lift fires
ScheduledFiring(t) == FireTimeout(t) \/ FireInterval(t)

\* C8: when disable returns the guild has no persisted schedule and no entry
\* in the lockHourTimers map, and from then on, until a new configure, no
\* scheduled engage or lift fires.
C8_DisableStopsSchedule ==
    [][ /\ DisableLockHour(TRUE)
            => (lockhour' = NoSchedule /\ lockHourTimers' = NoHourEntry)
        /\ lockhour = NoSchedule
            => \A t \in HourTimerIds : ~ScheduledFiring(t)
      ]_vars

\* C9: when configure replaces an earlier schedule, every timer armed for
\* the earlier schedule is cancelled before the new timers are armed, so
\* every scheduled engage or lift that fires afterward belongs to the schedule
\* configured last.
C9_ConfigureReplacesTimers ==
    [][ /\ hourGen' # hourGen
            => \A t \in HourTimerIds :
                  hourTimer'[t].st \in {"pending", "active"}
                      => hourTimer'[t].gen = hourGen'
        /\ \A t \in HourTimerIds :
              ScheduledFiring(t) => hourTimer[t].gen = hourGen
      ]_vars

\* C10: when the role set of a command already holds 7 roles, the panel
\* author's toggle of an 8th distinct role of the guild is rejected with the
\* capacity error and the role set is left as it was.
C10_EighthRoleRejected ==
    ( /\ reply.kind = "setup_role"
      /\ reply.author
      /\ reply.role \in guildRoles
      /\ reply.role \notin reply.before
      /\ Cardinality(reply.before) = 7 )
    => /\ reply.result = "CapacityExceeded"
       /\ commands[reply.command] = reply.before

\* an 8th role was refused while 7 roles were bound
C10_CapacityReached ==
    /\ reply.kind = "setup_role"
    /\ reply.result = "CapacityExceeded"
    /\ reply.role \notin reply.before
    /\ Cardinality(commands[reply.command]) = 7

\* C11: for a command whose role set holds fewer than seven roles and not
\* role r, binding r and then unbinding r leaves the role set exactly as it
\* was before the bind; as this holds from every reachable state, a second
\* bind / unbind pair returns to the same set again.
C11_BindUnbindRoundTrip ==
    [][ ( /\ reply.kind = "setup_role"
          /\ reply.result = "Added"
          /\ reply.role \notin reply.before
          /\ Cardinality(reply.before) < MAX_ROLES_PER_COMMAND
          /\ commands[reply.command] = reply.before \cup {reply.role}
          /\ SetupRemove(reply.command, reply.role, TRUE) )
        => commands'[reply.command] = reply.before ]_vars

\* an unbind answered a role that was bound into a non-empty set, and the
\* other roles of the set are still bound
C11_UnbindAfterBind ==
    /\ reply.kind = "setup_remove"
    /\ reply.result = "Removed"
    /\ reply.role \in reply.before
    /\ Cardinality(reply.before) > 1
    /\ commands[reply.command] = reply.before \ {reply.role}

\* C12: starting from a subject without warn record, N sequential issues
\* (none overlapping another, every store request answered) make the query
\* return N; after a clear the query returns 0 and the next issue stores and
\* returns 1.
C12_SequentialIssuesCounted ==
    [][ \A u \in Subjects :
          ~warnLog[u].disturbed =>
            /\ WarnsQuery(u, "ok") => reply'.count = warnLog[u].issued
            /\ ClearWarns(u, "ok") => warnCount(warns'[u]) = 0
            /\ ( /\ \/ \E p \in ModPositions : WarnIssue(u, p, TRUE)
                    \/ \E c \in WarnsInFlight(u) : WarnWrite(c, "ok")
                 /\ reply'.result = "Warned" )
               => /\ reply'.count = warnLog[u].issued + 1
                  /\ warnCount(warns'[u]) = warnLog[u].issued + 1 ]_vars

\* a query answered 2 for a subject who was warned twice, one after the
\* other, since the last clear
C12_CountedAfterClear ==
    /\ reply.kind = "warns"
    /\ reply.store = "ok"
    /\ reply.count = 2
    /\ warnLog[reply.key] = [issued |-> 2, cleared |-> TRUE, disturbed |-> FALSE]

\* C13: an unmute of a member who holds no restriction role (or in a guild
\* that has none) fails with the not-muted error and leaves the members'
\* roles, the guild's roles and the timer table as they were; as this holds
\* in every state, a second unmute right after the first fails the same way.
C13_UnmuteNotMutedFails ==
    [][ \A c \in CallIds :
          ( /\ calls[c].op = "unmute"
            /\ calls[c].pc = "fetch"
            /\ calls'[c] # calls[c]
            /\ inGuild[calls[c].key]
            /\ heldRoles[calls[c].key] \cap mutedRoles = {} )
          => /\ calls'[c] = IdleCall
             /\ reply' = [kind |-> "unmute", key |-> calls[c].key,
                          result |-> "NotInState"]
             /\ heldRoles' = heldRoles
             /\ mutedRoles' = mutedRoles
             /\ muteTimers' = muteTimers
             /\ timer' = timer ]_vars

\* an unmute was refused as not muted while the restriction role exists and
\* the member's expiry is still recorded and pending
C13_RefusedWithLiveTimer ==
    /\ reply.kind = "unmute"
    /\ reply.result = "NotInState"
    /\ mutedRoles # {}
    /\ heldRoles[reply.key] = {}
    /\ muteTimers[reply.key] # NoRecord
    /\ timer[muteTimers[reply.key].timeout].st = "pending"

CapableNonAdmin ==
    /\ DispatchReplied
    /\ "Administrator" \notin reply.perms
    /\ CapabilityStep(version, reply.perms, reply.command)

\* C15, as the specification states it: when the role set bound to the
\* command is non-empty, an actor who holds the required capability and is
\* not an administrator is authorized if and only if they hold at least one
\* role of the bound set.
C15_RoleHolderIffAuthorized ==
    (CapableNonAdmin /\ commands[reply.command] # {}) =>
        (reply.outcome = "Authorized"
            <=> reply.roles \cap commands[reply.command] # {})

\* C15, as the code has it: when the role set the dispatcher read is
\* non-empty (a failed remote read is seen as an absent binding and answers
\* Unconfigured, whatever roles the actor holds), an actor who holds the
\* required capability and is not an administrator is authorized if and only
\* if they hold at least one role of the bound set.
C15_RoleHolderIffAuthorizedWhenRead ==
    (CapableNonAdmin /\ reply.seen # {}) =>
        /\ reply.seen = commands[reply.command]
        /\ reply.outcome = "Authorized"
              <=> reply.roles \cap commands[reply.command] # {}
        /\ reply.outcome # "Authorized" => reply.outcome = "RoleNotAuthorized"

\* a capable non-administrator holding one of two bound roles was authorized
C15_OneOfTwoRolesAuthorized ==
    /\ CapableNonAdmin
    /\ reply.outcome = "Authorized"
    /\ Cardinality(commands[reply.command]) = 2
    /\ Cardinality(reply.roles \cap commands[reply.command]) = 1

\* C16: an administrator is authorized for every command of the moderation
\* list whose role set (as the dispatcher reads it) is non-empty: the
\* capability step never rejects an administrator, and an administrator is
\* authorized whatever roles they hold.
C16_AdministratorAuthorized ==
    ( /\ DispatchReplied
      /\ "Administrator" \in reply.perms
      /\ reply.command \in BaseModCommands )
    => /\ reply.outcome # "CapabilityDenied"
       /\ reply.seen # {} => reply.outcome = "Authorized"

\* neither a persisted nor a cached snapshot exists
NoSnapshot == lockdown_backup = EmptyBackup /\ ~lockdownBackups.has

\* C17, as the specification states it: a lift on a scope that has no
\* snapshot succeeds (it acknowledges and raises no error) and changes no
\* channel's permission overrides.
C17_LiftWithoutSnapshotSucceeds ==
    [][ \A b \in BOOLEAN, f \in SUBSET Channels, r \in BOOLEAN, d \in BOOLEAN :
          (NoSnapshot /\ UnlockdownCommand(b, f, r, d))
          => /\ reply'.result = "Ok"
             /\ overwrite' = overwrite ]_vars

\* C17, as the code has it: a lift on a scope that has no snapshot changes
\* no channel's permission overrides and creates no snapshot; it succeeds
\* when the bot holds ManageChannels and raises an error when it does not.
C17_LiftWithoutSnapshotNoOp ==
    [][ \A b \in BOOLEAN, f \in SUBSET Channels, r \in BOOLEAN, d \in BOOLEAN :
          (NoSnapshot /\ UnlockdownCommand(b, f, r, d))
          => /\ reply'.result = IF b THEN "Ok" ELSE "Error"
             /\ reply'.restored = {}
             /\ overwrite' = overwrite
             /\ NoSnapshot' ]_vars

\* a lift without snapshot was acknowledged while a channel carries a denied
\* broadcast overwrite, which the lift left in place
C17_NoOpLiftAcknowledged ==
    /\ version = "index"
    /\ reply.kind = "unlockdown"
    /\ reply.result = "Ok"
    /\ reply.restored = {}
    /\ reply.failed = {}
    /\ channels = Channels
    /\ NoSnapshot
    /\ \E ch \in Channels : overwrite[ch].exists /\ overwrite[ch].send = "deny"

\* C18: after a lift has returned, no snapshot exists for the scope, neither
\* persisted nor cached, whether or not the restore of a channel failed.
C18_NoSnapshotAfterLift ==
    (reply.kind = "unlockdown" /\ reply.result = "Ok") => NoSnapshot

\* C19: every failed write to the store is surfaced to the caller: an engage
\* whose write of the snapshot failed and a lift whose delete of the snapshot
\* failed do not report success.
C19_FailedWriteSurfaced ==
    [][ /\ \A f \in SUBSET Channels :
              LockdownCommand(TRUE, f, FALSE) => reply'.result # "Ok"
        /\ \A f \in SUBSET Channels, r \in BOOLEAN :
              UnlockdownCommand(TRUE, f, r, FALSE) => reply'.result # "Ok" ]_vars

C21_DurationGrammar ==
    reply.kind = "parseDuration" =>
        LET s == trim(toLowerCase(reply.text))
            k == PrefixLen(s, Digits)
            n == parseInt(SubSeq(s, 1, k))
            rest == SubSeq(s, k + 1, Len(s))
            word == SubSeq(rest, PrefixLen(rest, {" "}) + 1, Len(rest))
            unitMs ==
                IF word \in {<<"m">>, <<"m","i","n">>, <<"m","i","n","s">>,
                             <<"m","i","n","u","t","o">>,
                             <<"m","i","n","u","t","o","s">>}
                THEN 60000 \div MinuteMs
                ELSE IF word \in {<<"h">>, <<"h","r">>, <<"h","o","r","a">>,
                                  <<"h","o","r","a","s">>}
                THEN 3600000 \div MinuteMs
                ELSE IF word \in {<<"d">>, <<"d","i","a">>, <<"d","i","a","s">>}
                THEN 86400000 \div MinuteMs
                ELSE 0
        IN /\ (k >= 1 /\ word \in {<<"m">>, <<"h">>, <<"d">>})
                 => reply.result = n * unitMs
           /\ reply.result # ParseFailure
                 => (k >= 1 /\ unitMs # 0 /\ reply.result = n * unitMs)
           /\ reply.text = <<"1", "0", "m">> => reply.result = 600000 \div MinuteMs
           /\ reply.text = <<"2", "h">> => reply.result = 7200000 \div MinuteMs
           /\ reply.text = <<"3", "d">> => reply.result = 259200000 \div MinuteMs
           /\ reply.text = <<"s", "o", "o", "n">> => reply.result = ParseFailure

\* C22: in every reachable state the role set of each command has at most
\* seven entries, also when two role-toggle interactions for the same
\* command interleave between the read of the current set and the write of
\* the new one.
C22_AtMostSevenRoles ==
    \A command \in AllCommands :
        Cardinality(commands[command]) <= MAX_ROLES_PER_COMMAND

\* C23: whenever no engage and no lift is in progress, every channel that an
\* engage has force-denied and no lift has restored since has its
\* classification recorded in the snapshot, also after an engage and a lift
\* overlapped.
C23_ForcedChannelsInSnapshot ==
    (lockRun.engage.pc = "idle" /\ lockRun.lift.pc = "idle")
        => \A ch \in lockRun.forced : lockdown_backup[ch] # "absent"

\* C24: every completed issue raises the subject's stored warn count by
\* exactly 1 (so k completed issues with no clear leave the count at k),
\* also when two issues for the same subject overlap between the read of the
\* count and the write of the new one.
C24_IssueRaisesCountByOne ==
    [][ \A u \in Subjects :
          ( \/ \E p \in ModPositions :
                  WarnIssue(u, p, TRUE) /\ reply'.result = "Warned"
            \/ \E c \in WarnsInFlight(u) : WarnWrite(c, "ok") )
          => warnCount(warns'[u]) = warnCount(warns[u]) + 1 ]_vars

\* C25: at most one restriction role is ever created in the guild: two mutes
\* that overlap while the role does not exist yet lead to a single creation,
\* and every mute hands out that one role.
C25_SingleMutedRole ==
    /\ Cardinality(mutedRoles) <= 1
    /\ \A u \in Subjects : heldRoles[u] \subseteq {FindMutedRole}

\* no muteUser or unmuteUser call and no expiry callback of the subject is
\* between two of its steps
QuietSubject(u) ==
    /\ \A c \in CallIds : calls[c].op # "idle" => calls[c].key # u
    /\ \A t \in TimerIds :
          timer[t].st \in {"fetch", "remove", "removed"} => timer[t].key # u

\* C26: after an unmute has returned successfully (and no mute of the subject
\* is in progress) the timer table holds no record for the subject and no
\* expiry timer of the subject is left to fire; and once the calls for a
\* subject have returned, also an unmute that overlapped a mute, a subject
\* holding the restriction role has an expiry pending.
C26_UnmuteLeavesNoTimer ==
    \A u \in Subjects :
        QuietSubject(u) =>
            /\ reply = [kind |-> "unmute", key |-> u, result |-> "Unmuted"]
                  => /\ muteTimers[u] = NoRecord
                     /\ \A t \in TimerIds :
                           ~(timer[t].st = "pending" /\ timer[t].key = u)
            /\ (inGuild[u] /\ heldRoles[u] \cap mutedRoles # {})
                  => \E t \in TimerIds :
                        timer[t].st = "pending" /\ timer[t].key = u

\* C27: for every duration d the parser accepts, also one above 2^31 - 1 ms
\* such as "30d", the expiry timeout runs with a delay of at least d ms, so
\* the expiry action does not run before d ms have elapsed.
C27_ExpiryNotBeforeDuration ==
    reply.kind = "setTimeout" => reply.delay \div MinuteMs >= reply.duration

\* C28: under a schedule that was configured once and is still enabled, every
\* scheduled engage fires at the configured start time of day and every
\* scheduled lift at the configured end time of day, so after the first
\* firing each trigger fires again exactly 24 h after its previous firing.
C28_FiresAtConfiguredTimeOfDay ==
    [][ \A t \in HourTimerIds :
          (hourGen = 1 /\ lockhour.enabled /\ ScheduledFiring(t))
          => now % DayMs =
                HourMs * (IF hourTimer[t].kind \in {"startTimeout", "startInterval"}
                          THEN lockhour.start ELSE lockhour.end) ]_vars

C30_SecondEngageReplacesSnapshot ==
    [][ ( /\ ~NoSnapshot
          /\ \E f \in SUBSET Channels, w \in BOOLEAN : LockdownCommand(TRUE, f, w) )
        => LET fresh == [ch \in Channels |->
                           IF ch \in channels
                              /\ chanType(ch) \in LockdownTypes(version)
                           THEN Classify(overwrite[ch]) ELSE "absent"]
           IN IF version = "index"
              THEN lockdown_backup' = fresh
              ELSE lockdownBackups' = [has |-> TRUE, entries |-> fresh]
      ]_vars

\* index.js: an engage has replaced a snapshot that differed from the one it
\* wrote, and the stored snapshot is the one it wrote
C30_EarlierSnapshotReplaced ==
    /\ version = "index"
    /\ reply.kind = "lockdown"
    /\ reply.result = "Ok"
    /\ reply.replaced # EmptyBackup
    /\ reply.replaced # reply.before
    /\ lockdown_backup = reply.before

\* C31: when the edit that denies one channel is rejected during an engage,
\* the engage still denies every other channel it covers, leaves the rejected
\* and the uncovered channels as they were, writes the snapshot of all covered
\* channels and answers success.
C31_PartialEngageContinues ==
    [][ \A f \in SUBSET Channels :
          ( /\ f # {}
            /\ \E w \in BOOLEAN : LockdownCommand(TRUE, f, w) )
          => LET covered == {ch \in channels :
                                chanType(ch) \in LockdownTypes(version)}
                 fresh == [ch \in Channels |->
                             IF ch \in covered THEN Classify(overwrite[ch])
                             ELSE "absent"]
             IN /\ reply'.kind = "lockdown" /\ reply'.result = "Ok"
                /\ \A ch \in Channels :
                      overwrite'[ch] =
                         IF ch \in covered \ f
                         THEN [exists |-> TRUE, send |-> "deny",
                               view |-> overwrite[ch].view]
                         ELSE overwrite[ch]
                /\ IF version = "index"
                   THEN lockdown_backup' = fresh
                   ELSE lockdownBackups' = [has |-> TRUE, entries |-> fresh]
      ]_vars

\* an engage answered success although the edit of its first channel was
\* rejected: that channel is not denied, a later channel is, and the snapshot
\* the next lift reads has an entry for both
C31_LaterChannelDenied ==
    /\ reply.kind = "lockdown"
    /\ reply.result = "Ok"
    /\ \E ch \in reply.failed : \E o \in channels \ reply.failed :
          /\ ch < o
          /\ ~(overwrite[ch].exists /\ overwrite[ch].send = "deny")
          /\ reply.before[o] \in {"true", "null"}
          /\ overwrite[o].exists /\ overwrite[o].send = "deny"
          /\ BackupRead(TRUE)[ch] # "absent"
          /\ BackupRead(TRUE)[o] # "absent"

\* C32: an engage followed by a lift (neither with a per-channel failure)
\* changes nothing but the SendMessages bit of the @everyone overwrite: the
\* other bits an overwrite held before the engage, which the engage leaves
\* alone, are the same after the lift, also on a channel classified
\* inherited.
C32_OtherBitsKept ==
    [][ ( /\ CleanEngage
          /\ reply'.kind = "unlockdown"
          /\ reply'.result = "Ok"
          /\ reply'.failed = {} )
        => \A ch \in channels' : overwrite'[ch].view = overwrite[ch].view
      ]_vars

\* C33: binding a role that is not in the role set of a command leaves the
\* set as it was plus that role, so no role bound before is dropped, also
\* when the read of the current binding failed or returned nothing; a toggle
\* of a role that is already bound leaves the set unchanged.
C33_BindKeepsEarlierRoles ==
    [][ /\ \A c \in SetupCallIds :
              ( /\ setupCalls[c].pc = "put"
                /\ setupCalls[c].role \in setupCalls[c].payload
                /\ RemoteWrite(c, TRUE) )
              => commands'[setupCalls[c].command] =
                    commands[setupCalls[c].command] \cup {setupCalls[c].role}
        /\ \A c \in SetupCallIds, r \in guildRoles, ok \in BOOLEAN :
              ( /\ r \in ReadRoles(version, "mute", ok)
                /\ RemoteSetupRole(c, "mute", r, TRUE, ok) )
              => /\ commands' = commands
                 /\ setupCalls' = setupCalls
      ]_vars

\* C34: between two clears the stored warn count of a subject never goes
\* down, also when the read that precedes an issue fails or returns no
\* record.
C34_CountNeverDecreases ==
    [][ \A u \in Subjects :
          \/ warnCount(warns'[u]) >= warnCount(warns[u])
          \/ \E d \in FetchOutcomes : ClearWarns(u, d) ]_vars

\* C35: a read of the store that fails is seen by its caller as an absent
\* value and never as an error: the warns query whose read failed answers a
\* count of 0, and the dispatcher whose read failed sees no binding and
\* authorizes nobody.
C35_FailedReadSeenAsAbsent ==
    /\ (reply.kind = "warns" /\ reply.store # "ok")
          => (reply.result = "Count" /\ reply.count = 0)
    /\ (DispatchReplied /\ reply.seen = {})
          => reply.outcome \in {"CapabilityDenied", "Unconfigured"}

\* C36: every command the dispatcher accepts can be made executable from the
\* setup panel: while no role is bound to it, some panel operation of the
\* panel's author binds a role of the guild to it (and a dispatch of the command
\* by a member with the capability and that role is then authorized).  The
\* bindings are written by the panel's operations alone, so a command with no
\* such operation never gets a role.
C36_EveryCommandConfigurable ==
    \A c \in modCommands(version) :
        (\A o \in AllCommands : commands[o] = {})
            => ENABLED (\E r \in guildRoles :
                            /\ SetupRole(c, r, TRUE)
                            /\ commands'[c] # {})

\* the commands left out of the panel stay without a role
NoPanelNoRoles ==
    \A c \in modCommands(version) \ setupCommands(version) : commands[c] = {}

\* C37: a mute is never applied with a duration that is not positive: the
\* expiry timeout is armed only right after the parser returned a positive
\* duration, and with that duration; a text the parser fails on or reads as 0
\* (as "0m") is turned away before muteUser runs.
C37_MuteDurationPositive ==
    [][reply'.kind = "setTimeout"
          => /\ reply.kind = "parseDuration"
             /\ reply.result > 0
             /\ reply'.duration = reply.result]_vars

\* a duration text was read as 0
C37_ZeroDurationParsed ==
    /\ reply.kind = "parseDuration"
    /\ reply.text = <<"0", "m">>
    /\ reply.result = 0

\* C38: the delay to the next hour:minute is computed from the time of day of
\* a fixed timezone, so it does not depend on the timezone of the process: at
\* the same instant and for the same hour:minute, a process whose local clock
\* has any other offset computes the same delay.
C38_DelaySameInEveryZone ==
    reply.kind = "msUntilNext"
        => \A o \in ZoneOffsets :
               msUntilNextAt(now + o * HourMs, reply.hour, reply.minute)
                   = reply.result

\* C39: in every revision a lock command that succeeds leaves the send bit of
\* the target channel's @everyone overwrite denied and an unlock command that
\* succeeds leaves it allowed, so the reply (locked for lock, unlocked for
\* unlock) names what was applied.
C39_LockDeniesUnlockAllows ==
    [][\A c \in {"lock", "unlock"}, ch \in Channels, b \in BOOLEAN, e \in BOOLEAN :
          (lockChannel(c, ch, b, e) /\ reply'.result = "Ok")
              => overwrite'[ch].send = IF c = "lock" THEN "deny" ELSE "allow"]_vars

====
